---- MODULE Spec2Model ----
(***************************************************************************)
(* A model of the fairyfishnet client (src/fairyfishnet.py): the worker    *)
(* loop (Worker.run / Worker.run_inner), the engine subprocess handle,     *)
(* the supervisor (cmd_run) with its signal handler, and the exit status   *)
(* computed by main (specification Spec); and the execution of one job by  *)
(* Worker.analysis / Worker.bestmove with the UCI dialogue of go and       *)
(* isready (specification SpecJob).                                        *)
(***************************************************************************)
EXTENDS Integers, Sequences, FiniteSets, TLC

(***************************************************************************)
(* Bounds of the model.                                                    *)
(***************************************************************************)
\* Number of distinct jobs (work.id) the coordinator hands out.
MaxJobs == 1

\* Live engine subprocesses per worker the model can represent.
MaxProcs == 2

\* Most move tokens in job["moves"].
MaxMoves == 2

\* Most lines the engine sends before the one a receive loop waits for.
MaxNoise == 1

\* Jobs one engine process executes one after the other.
MaxRuns == 2

\* The worker pool built by cmd_run (one Worker per bucket).
Workers == {1, 2}

VARIABLES
    \* ---- Worker (one entry per worker thread)
    pc,           \* position of the worker thread in run / run_inner
    alive,        \* Worker.alive
    job,          \* Worker.job
    stockfish,    \* Worker.stockfish: "None", or a Popen handle by what its
                  \* poll() answers: "running" (None) or "exited"
    proc,         \* number of live engine subprocesses a worker has spawned
    fatal_error,  \* Worker.fatal_error
    finished,     \* Worker.finished (threading.Event)
    sleep,        \* Worker.sleep (threading.Event)
    path,         \* run_inner's local `path`
    resp,         \* run_inner's local `response` (or the RequestException)
    died_alive,   \* run_inner's local `alive` of the dead-engine handler
    evlog,        \* steps taken since the last dead-engine error with a job
    held,         \* stop() found the running worker holding a job, and no
                  \* abort has been posted since
    \* ---- supervisor (main thread)
    spc,          \* position of the main thread in cmd_run / main
    sidx,         \* index of the worker a `for worker in workers` loop is at
    ignore,       \* SignalHandler.ignore of the installed handler
    raised,       \* the exception propagating in the main thread
    exit,         \* exit status of the process (-1: running, -2: execv'd)
    auto_update,  \* args.auto_update
    \* ---- the execution of one job (Worker.analysis / Worker.bestmove)
    jpc,          \* position of the worker thread in analysis / bestmove / go
    work_job,     \* the job: work.type, moves (a string), skipPositions
    moves,        \* the local `moves`: job["moves"].split(" ")
    result,       \* the local `result`: its "analysis" array, its "move"
    ply,          \* the loop variable of analysis
    part,         \* go's local `info`, then the caller's `part`
    line,         \* the bestmove line go returned on: its arg
    wire,         \* the dialogue with the engine: lines sent, and the
                  \* readyok and bestmove lines consumed
    noise,        \* lines consumed by the running receive loop so far
    runs,         \* jobs whose execution has begun
    searched,     \* the searches of the running analysis: ply and moves given to go()
    \* ---- the backoff generator (start_backoff)
    fixed,        \* parse_bool(conf_get(conf, "FixedBackoff"))
    backoff,      \* the generator's local `backoff`
    yielded,      \* delays yielded since the generator was (re)started
    delay,        \* the delay yielded last, in units of 1/(2*RandSteps) s
    \* ---- the effective variant (modded_variant)
    variant,      \* the argument `variant`
    chess960,     \* the argument `chess960`
    initial_fen,  \* the argument `initial_fen`
    modded,       \* what modded_variant returned, applied once: <<>> or <<v>>
    modded_twice, \* and applied to that again
    \* ---- the progress reporter (ProgressReporter)
    queue,        \* ProgressReporter.queue
    sends,        \* calls of send so far
    outcome,      \* how the last call of send ended
    item,         \* the reporter thread's local `item`
    rpc,          \* position of the reporter thread in run
    stopping,     \* position of the main thread in ProgressReporter.stop
    late,         \* items the reporter took for posting after stop() returned
    \* ---- parse_bool
    inp,          \* the argument `inp`, a sequence of characters or None
    word,         \* the word the argument was written from
    default,      \* the argument `default`
    parsed,       \* what parse_bool did: <<>> before the call
    \* ---- the worker pool (cmd_run)
    cores,        \* validate_cores(...)
    threads,      \* validate_threads(...)
    instances,    \* max(1, cores // threads), 0 before it is computed
    buckets,      \* the list `buckets`
    core,         \* the loop variable i of `for i in range(0, cores)`
    worker_threads, \* Worker.threads of the workers created, in order
    \* ---- one worker with its backoff generator (run_inner)
    sleep_t,      \* the local `t` of run_inner, in units of 1/Unit s
    abort,        \* the outcome of the worker's last abort POST, -1 for none
    \* ---- the score that go() keeps (info["score"])
    score,        \* info.get("score") in go()
    before,       \* what it was before the last info line
    told,         \* the score the last info line was written with
    infos,        \* lines received in this call of go()
    multipv,      \* info.get("multipv"): <<>> when the key is absent
    pv,           \* info.get("pv"): <<>> when absent, else <<its tokens>>
    pv_before,    \* what it was before the last info line
    go_raised,    \* an exception has left go()
    \* ---- the locks (who holds each: "free", "main" or "worker")
    status_lock,  \* Worker.status_lock, one per worker
    stockfish_lock, \* Worker.stockfish_lock, one per worker
    popen_lock    \* open_process's _popen_lock: 0, or the worker that holds it

wvars == <<pc, alive, job, stockfish, proc, fatal_error, finished,
           sleep, path, resp, died_alive, evlog, held>>
svars == <<spc, sidx, ignore, raised, exit, auto_update>>
jvars == <<jpc, work_job, moves, result, ply, part, line, wire, noise, runs, searched>>
bvars == <<fixed, backoff, yielded, delay>>
mvars == <<variant, chess960, initial_fen, modded, modded_twice>>
qvars == <<queue, sends, outcome, item, rpc, stopping, late>>
xvars == <<bvars, mvars, qvars>>
pvars == <<inp, word, default, parsed>>
cvars == <<cores, threads, instances, buckets, core, worker_threads>>
avars == <<sleep_t, abort>>
gvars == <<score, before, told, infos, multipv, pv, pv_before, go_raised>>
lvars == <<status_lock, stockfish_lock, popen_lock>>
yvars == <<pvars, cvars, avars, gvars, lvars>>
vars == <<wvars, svars, jvars, xvars, yvars>>

NoJob == [id |-> 0, type |-> "none"]
NoPath == [kind |-> "none", id |-> 0, request |-> "none"]
NoResp == [status |-> -1, body |-> "none", job |-> NoJob]
JobIds == 1 .. MaxJobs

\* work.type of the job with id n.
JobType(n) == IF n % 2 = 1 THEN "analysis" ELSE "move"
Job(n) == [id |-> n, type |-> JobType(n)]

Running == exit = -1

(***************************************************************************)
(* What the coordinator (or the transport) can answer to a POST.  status 0 *)
(* stands for a requests.RequestException (timeout, connection error).     *)
(***************************************************************************)
Bodies(status) ==
    CASE status \in {200, 202} -> {"job", "not_json"}
      [] status = 400 -> {"marker", "error", "no_error_key", "not_json",
                          "not_object"}
      [] status = 429 -> {"marker", "error", "no_error_key", "not_json"}
      [] OTHER -> {"empty"}

Statuses == {0, 200, 202, 204, 302, 400, 429, 500}

Responses ==
    UNION { UNION { IF b = "job"
                    THEN { [status |-> s, body |-> b, job |-> Job(n)] : n \in JobIds }
                    ELSE { [status |-> s, body |-> b, job |-> NoJob] } :
                    b \in Bodies(s) } : s \in Statuses }

(***************************************************************************)
(* The record of the steps a worker takes after an engine-died error that  *)
(* it caught while alive and holding a job.                                *)
(***************************************************************************)
Record(w, e) == IF evlog[w] # <<>> THEN Append(evlog[w], e) ELSE evlog[w]

\* kill_process + the handle reset of Worker.kill_stockfish
KillStockfish(w) ==
    /\ proc' = [proc EXCEPT ![w] = IF stockfish[w] = "running" THEN @ - 1 ELSE @]
    /\ stockfish' = [stockfish EXCEPT ![w] = "None"]

\* an exception that leaves run_inner: Worker.run records it
Fatal(w, kind) ==
    /\ fatal_error' = [fatal_error EXCEPT ![w] = kind]
    /\ pc' = [pc EXCEPT ![w] = "finally"]

\* Run without the is_alive() check
Run_NoCheck(w) ==
    /\ Running /\ pc[w] = "run"
    /\ pc' = [pc EXCEPT ![w] = "start_stockfish"]
    /\ path' = [path EXCEPT ![w] = NoPath]
    /\ resp' = [resp EXCEPT ![w] = NoResp]
    /\ UNCHANGED <<alive, job, stockfish, proc, fatal_error, finished,
                   sleep, died_alive, evlog, held, svars, jvars, xvars, yvars>>

(***************************************************************************)
(* Worker.run: while self.is_alive(): self.run_inner()                     *)
(***************************************************************************)
Run(w) ==
    /\ Running /\ pc[w] = "run"
    /\ pc' = [pc EXCEPT ![w] = IF alive[w] THEN "start_stockfish" ELSE "finally"]
    /\ path' = [path EXCEPT ![w] = NoPath]
    /\ resp' = [resp EXCEPT ![w] = NoResp]
    /\ UNCHANGED <<alive, job, stockfish, proc, fatal_error, finished,
                   sleep, died_alive, evlog, held, svars, jvars, xvars, yvars>>

\* finally: self.finished.set()
Finally(w) ==
    /\ Running /\ pc[w] = "finally"
    /\ finished' = [finished EXCEPT ![w] = TRUE]
    /\ pc' = [pc EXCEPT ![w] = "done"]
    \* the locals of run_inner are gone
    /\ path' = [path EXCEPT ![w] = NoPath]
    /\ resp' = [resp EXCEPT ![w] = NoResp]
    /\ died_alive' = [died_alive EXCEPT ![w] = FALSE]
    /\ evlog' = [evlog EXCEPT ![w] = <<>>]
    \* and no abort can come before finished any more
    /\ held' = [held EXCEPT ![w] = FALSE]
    /\ UNCHANGED <<alive, job, stockfish, proc, fatal_error, sleep, svars, jvars, xvars, yvars>>

\* open_process succeeds: self.stockfish is a new, running subprocess
Spawn(w) ==
    /\ proc[w] < MaxProcs
    /\ stockfish' = [stockfish EXCEPT ![w] = "running"]
    /\ proc' = [proc EXCEPT ![w] = @ + 1]
    /\ evlog' = [evlog EXCEPT ![w] = Record(w, "spawn")]
    /\ pc' = [pc EXCEPT ![w] = "uci"]

\* StartStockfish without the `poll() is None` check: it always spawns
StartStockfish_NoPoll(w) ==
    /\ Running /\ pc[w] = "start_stockfish"
    /\ Spawn(w)
    /\ UNCHANGED <<alive, job, fatal_error, finished, sleep, path, resp,
                   died_alive, held, svars, jvars, xvars, yvars>>

(***************************************************************************)
(* Worker.start_stockfish, the part under stockfish_lock: return if the    *)
(* engine is running, else open_process.                                   *)
(***************************************************************************)
StartStockfish(w) ==
    /\ Running /\ pc[w] = "start_stockfish"
    /\ IF stockfish[w] # "None" /\ stockfish[w] = "running"
       THEN /\ pc' = [pc EXCEPT ![w] = "work"]
            /\ UNCHANGED <<stockfish, proc, evlog>>
       ELSE \/ Spawn(w)
            \/ \* subprocess.Popen raises OSError
               /\ pc' = [pc EXCEPT ![w] = "died"]
               /\ UNCHANGED <<stockfish, proc, evlog>>
    /\ UNCHANGED <<alive, job, fatal_error, finished, sleep, path, resp,
                   died_alive, held, svars, jvars, xvars, yvars>>

(***************************************************************************)
(* Worker.start_stockfish, the rest: uci(), setoption()s, isready() on     *)
(* self.stockfish.  stop() may have emptied the handle (AttributeError);   *)
(* the pipes may reach end of stream at any time (EOFError).               *)
(***************************************************************************)
Handshake(w) ==
    /\ Running /\ pc[w] = "uci"
    /\ \/ /\ stockfish[w] = "None"
          /\ Fatal(w, "Exception")
       \/ /\ stockfish[w] = "running"
          /\ pc' = [pc EXCEPT ![w] = "work"]
          /\ UNCHANGED fatal_error
       \/ /\ pc' = [pc EXCEPT ![w] = "died"]
          /\ UNCHANGED fatal_error
    /\ UNCHANGED <<alive, job, stockfish, proc, finished, sleep, path,
                   resp, died_alive, evlog, held, svars, jvars, xvars, yvars>>

\* WorkPath with the path and body of a result whatever the job
WorkPath_Result(j) ==
    [kind |-> "analysis", id |-> j.id, request |-> "analysis"]

\* Worker.work: the path and the body it returns: the result of the job
\* for "analysis/<id>" or "move/<id>", or make_request() (the client and
\* engine identification) for "acquire"
WorkPath(j) ==
    IF j.type \in {"analysis", "move"}
    THEN [kind |-> j.type, id |-> j.id, request |-> j.type]
    ELSE [kind |-> "acquire", id |-> 0, request |-> "identification"]

(***************************************************************************)
(* Worker.work: run the current job on the engine, or ask for one.         *)
(***************************************************************************)
Work(w) ==
    /\ Running /\ pc[w] = "work"
    /\ IF job[w] = NoJob
       THEN /\ path' = [path EXCEPT ![w] = WorkPath(job[w])]
            /\ pc' = [pc EXCEPT ![w] = "post"]
            /\ UNCHANGED fatal_error
       ELSE \/ \* the handle was emptied by stop(): AttributeError
               /\ stockfish[w] = "None"
               /\ Fatal(w, "Exception")
               /\ UNCHANGED path
            \/ \* the engine output makes the executor raise
               \* (KeyError, ValueError, IndexError)
               /\ stockfish[w] = "running"
               /\ Fatal(w, "Exception")
               /\ UNCHANGED path
            \/ \* end of stream on the engine's pipes
               /\ pc' = [pc EXCEPT ![w] = "died"]
               /\ UNCHANGED <<path, fatal_error>>
            \/ /\ stockfish[w] = "running"
               /\ path' = [path EXCEPT ![w] = WorkPath(job[w])]
               /\ pc' = [pc EXCEPT ![w] = "post"]
               /\ UNCHANGED fatal_error
    /\ UNCHANGED <<alive, job, stockfish, proc, finished, sleep,
                   resp, died_alive, evlog, held, svars, jvars, xvars, yvars>>

(***************************************************************************)
(* run_inner, except DEAD_ENGINE_ERRORS                                    *)
(***************************************************************************)
DiedIsAlive(w) ==
    /\ Running /\ pc[w] = "died"
    /\ died_alive' = [died_alive EXCEPT ![w] = alive[w]]
    /\ evlog' = [evlog EXCEPT ![w] =
                    IF alive[w] /\ job[w] # NoJob THEN <<"died">> ELSE <<>>]
    /\ pc' = [pc EXCEPT ![w] = "abort"]
    /\ UNCHANGED <<alive, job, stockfish, proc, fatal_error, finished,
                   sleep, path, resp, held>>

\* the same for a worker whose backoff generator is not looked at
DiedCatch(w) ==
    /\ DiedIsAlive(w)
    /\ UNCHANGED <<svars, jvars, xvars, yvars>>

\* What the abort POST can come to: 204, another status, or a
\* requests.RequestException (0).
AbortStatuses == {204, 500, 0}

AfterAbort_KeepOnFailure(j, status) == IF status = 204 THEN NoJob ELSE j

\* abort_job: self.job = None follows the try statement, whose handlers
\* only log
AfterAbort(j, status) == NoJob

\* Worker.abort_job; status is the outcome of the POST when there is a job
abort_job(w, status) ==
    /\ Running /\ pc[w] = "abort"
    /\ job' = [job EXCEPT ![w] = IF @ = NoJob THEN @ ELSE AfterAbort(@, status)]
    /\ evlog' = [evlog EXCEPT ![w] = IF job[w] # NoJob THEN Record(w, "abort") ELSE @]
    /\ pc' = [pc EXCEPT ![w] = IF died_alive[w] THEN "died_sleep" ELSE "run"]
    /\ held' = [held EXCEPT ![w] = IF job[w] # NoJob THEN FALSE ELSE @]
    /\ UNCHANGED <<alive, stockfish, proc, fatal_error, finished,
                   sleep, path, resp, died_alive>>

\* the same for a worker whose abort POST is not looked at
AbortJob(w) ==
    /\ \E status \in AbortStatuses : abort_job(w, status)
    /\ UNCHANGED <<svars, jvars, xvars, yvars>>

\* self.sleep.wait(t) of the dead-engine handler
DiedSleep(w) ==
    /\ Running /\ pc[w] = "died_sleep"
    /\ evlog' = [evlog EXCEPT ![w] = Record(w, "sleep")]
    /\ pc' = [pc EXCEPT ![w] = "died_kill"]
    /\ UNCHANGED <<alive, job, stockfish, proc, fatal_error, finished,
                   sleep, path, resp, died_alive, held, svars, jvars, xvars, yvars>>

\* DiedKill without the kill
DiedKill_NoKill(w) ==
    /\ Running /\ pc[w] = "died_kill"
    /\ evlog' = [evlog EXCEPT ![w] = Record(w, "kill")]
    /\ died_alive' = [died_alive EXCEPT ![w] = FALSE]
    /\ pc' = [pc EXCEPT ![w] = "run"]
    /\ UNCHANGED <<alive, job, stockfish, proc, fatal_error, finished, sleep,
                   path, resp, held, svars, jvars, xvars, yvars>>

\* self.kill_stockfish() of the dead-engine handler
DiedKill(w) ==
    /\ Running /\ pc[w] = "died_kill"
    /\ KillStockfish(w)
    /\ evlog' = [evlog EXCEPT ![w] = Record(w, "kill")]
    /\ died_alive' = [died_alive EXCEPT ![w] = FALSE]
    /\ pc' = [pc EXCEPT ![w] = "run"]
    /\ UNCHANGED <<alive, job, fatal_error, finished, sleep, path, resp, held, svars, jvars, xvars, yvars>>

\* HandleResponse with the `self.job = None` of the 204, 5xx and
\* RequestException branches left out, and 200 treated like 202
HandleResponse_KeepJob(w, r) ==
    CASE r.status \in {200, 202} /\ r.body = "job" ->
            /\ job' = [job EXCEPT ![w] = r.job]
            /\ pc' = [pc EXCEPT ![w] = "run"]
            /\ UNCHANGED fatal_error
      [] r.status \in {200, 202} ->
            /\ Fatal(w, "Exception")
            /\ UNCHANGED job
      [] r.status >= 400 /\ r.status <= 499 ->
            /\ job' = [job EXCEPT ![w] = NoJob]
            /\ IF r.body = "marker"
               THEN Fatal(w, "UpdateRequired")
               ELSE /\ pc' = [pc EXCEPT ![w] = "sleep"]
                    /\ UNCHANGED fatal_error
      [] OTHER ->
            /\ pc' = [pc EXCEPT ![w] = "sleep"]
            /\ UNCHANGED <<job, fatal_error>>

\* HandleResponse with UpdateRequired caught like KeyError and ValueError
\* after it was recorded
HandleResponse_NoRaise(w, r) ==
    CASE r.status = 202 /\ r.body = "job" ->
            /\ job' = [job EXCEPT ![w] = r.job]
            /\ pc' = [pc EXCEPT ![w] = "run"]
            /\ UNCHANGED fatal_error
      [] r.status = 202 ->
            /\ Fatal(w, "Exception")
            /\ UNCHANGED job
      [] OTHER ->
            /\ job' = [job EXCEPT ![w] = NoJob]
            /\ pc' = [pc EXCEPT ![w] = "sleep"]
            /\ fatal_error' = [fatal_error EXCEPT ![w] =
                    IF r.status >= 400 /\ r.status <= 499 /\ r.body = "marker"
                    THEN "UpdateRequired" ELSE @]

(***************************************************************************)
(* run_inner: the classification of the response (or RequestException) r   *)
(***************************************************************************)
HandleResponse(w, r) ==
    CASE r.status = 0 ->
            /\ job' = [job EXCEPT ![w] = NoJob]
            /\ pc' = [pc EXCEPT ![w] = "sleep"]
            /\ UNCHANGED fatal_error
      [] r.status = 204 ->
            /\ job' = [job EXCEPT ![w] = NoJob]
            /\ pc' = [pc EXCEPT ![w] = "sleep"]
            /\ UNCHANGED fatal_error
      [] r.status = 202 ->
            IF r.body = "job"
            THEN /\ job' = [job EXCEPT ![w] = r.job]
                 /\ pc' = [pc EXCEPT ![w] = "run"]
                 /\ UNCHANGED fatal_error
            ELSE \* response.json() raises ValueError
                 /\ Fatal(w, "Exception")
                 /\ UNCHANGED job
      [] r.status >= 500 /\ r.status <= 599 ->
            /\ job' = [job EXCEPT ![w] = NoJob]
            /\ pc' = [pc EXCEPT ![w] = "sleep"]
            /\ UNCHANGED fatal_error
      [] r.status >= 400 /\ r.status <= 499 ->
            /\ job' = [job EXCEPT ![w] = NoJob]
            /\ IF r.body = "marker"
               THEN Fatal(w, "UpdateRequired")
               ELSE IF r.body = "not_object"
               THEN \* response.json() is a list, a number, a string or
                    \* null, or its "error" is no string: ["error"] or
                    \* the `in` test raises TypeError, which the
                    \* except (KeyError, ValueError) lets through
                    Fatal(w, "Exception")
               ELSE \* no marker, or KeyError / ValueError caught
                    /\ pc' = [pc EXCEPT ![w] = "sleep"]
                    /\ UNCHANGED fatal_error
      [] OTHER ->
            /\ job' = [job EXCEPT ![w] = NoJob]
            /\ pc' = [pc EXCEPT ![w] = "sleep"]
            /\ UNCHANGED fatal_error

(***************************************************************************)
(* run_inner: self.http.post(get_endpoint(self.conf, path), ...) and what  *)
(* follows it up to the sleep                                              *)
(***************************************************************************)
PostResponse(w, r) ==
    /\ Running /\ pc[w] = "post"
    /\ resp' = [resp EXCEPT ![w] = r]
    /\ HandleResponse(w, r)
    /\ evlog' = [evlog EXCEPT ![w] = <<>>]
    /\ UNCHANGED <<alive, stockfish, proc, finished, sleep, path, died_alive, held>>

\* the same for a worker whose backoff generator is not looked at
Post(w) ==
    /\ \E r \in Responses : PostResponse(w, r)
    /\ UNCHANGED <<svars, jvars, xvars, yvars>>

\* self.sleep.wait(t) after a response: it returns when t has elapsed or the
\* event is set, and run_inner returns (its locals are gone)
Sleep(w) ==
    /\ Running /\ pc[w] = "sleep"
    /\ pc' = [pc EXCEPT ![w] = "run"]
    /\ path' = [path EXCEPT ![w] = NoPath]
    /\ resp' = [resp EXCEPT ![w] = NoResp]
    /\ UNCHANGED <<alive, job, stockfish, proc, fatal_error, finished,
                   sleep, died_alive, evlog, held, svars, jvars, xvars, yvars>>

\* The engine subprocess exits on its own (poll() is no longer None).
EngineExit(w) ==
    /\ Running
    /\ stockfish[w] = "running"
    /\ stockfish' = [stockfish EXCEPT ![w] = "exited"]
    /\ proc' = [proc EXCEPT ![w] = @ - 1]
    /\ UNCHANGED <<pc, alive, job, fatal_error, finished,
                   sleep, path, resp, died_alive, evlog, held, svars, jvars, xvars, yvars>>

(***************************************************************************)
(* Worker.stop and Worker.stop_soon, called by the supervisor              *)
(***************************************************************************)
stop(w) ==
    /\ alive' = [alive EXCEPT ![w] = FALSE]
    /\ KillStockfish(w)
    /\ sleep' = [sleep EXCEPT ![w] = TRUE]
    /\ held' = [held EXCEPT ![w] = job[w] # NoJob /\ ~finished[w]]

\* stop_soon killing the engine as stop does
stop_soon_Kill(w) ==
    /\ alive' = [alive EXCEPT ![w] = FALSE]
    /\ KillStockfish(w)
    /\ sleep' = [sleep EXCEPT ![w] = TRUE]
    /\ UNCHANGED held

stop_soon(w) ==
    /\ alive' = [alive EXCEPT ![w] = FALSE]
    /\ sleep' = [sleep EXCEPT ![w] = TRUE]
    /\ UNCHANGED <<stockfish, proc, held>>

LastWorker == Cardinality(Workers)

(***************************************************************************)
(* cmd_run, the main loop: worker.finished.wait(1.0), then                 *)
(* `if worker.fatal_error: raise worker.fatal_error`.  The wait times out, *)
(* so which worker's error is seen first is a matter of timing.            *)
(* UpdateRequired enters the body of `except UpdateRequired:`; any other   *)
(* exception goes straight to the finally block (handler.ignore = True).   *)
(***************************************************************************)
SupCheck_NoStop ==
    /\ Running /\ spc = "loop"
    /\ \E w \in Workers :
          /\ fatal_error[w] # "none"
          /\ raised' = fatal_error[w]
          /\ spc' = "return"
          /\ ignore' = TRUE
    /\ sidx' = 1
    /\ UNCHANGED <<wvars, exit, auto_update, jvars, xvars, yvars>>

SupCheck ==
    /\ Running /\ spc = "loop"
    /\ \E w \in Workers :
          /\ fatal_error[w] # "none"
          /\ raised' = fatal_error[w]
          /\ spc' = IF fatal_error[w] = "UpdateRequired" THEN "except_update" ELSE "fin_stop"
          /\ ignore' = IF fatal_error[w] = "UpdateRequired" THEN ignore ELSE TRUE
    /\ sidx' = 1
    /\ UNCHANGED <<wvars, exit, auto_update, jvars, xvars, yvars>>

\* cmd_run: log stats, then
\* `if random.random() <= CHECK_PYPI_CHANCE and update_available() and args.auto_update`
SupStats ==
    /\ Running /\ spc = "loop"
    /\ auto_update
    /\ raised' = "UpdateRequired"
    /\ spc' = "except_update"
    /\ UNCHANGED <<wvars, sidx, ignore, exit, auto_update, jvars, xvars, yvars>>

\* except UpdateRequired: log; raise -- and the finally block begins
SupExceptUpdate ==
    /\ Running /\ spc = "except_update"
    /\ ignore' = TRUE
    /\ sidx' = 1
    /\ spc' = "fin_stop"
    /\ UNCHANGED <<wvars, raised, exit, auto_update, jvars, xvars, yvars>>

SignalException(sig) ==
    CASE sig = "SIGINT" -> "ShutdownSoon"
      [] sig = "SIGTERM" -> "Shutdown"
      [] sig = "SIGUSR1" -> "UpdateRequired"

(***************************************************************************)
(* SignalHandler.handle_int / handle_term / handle_usr1: unless ignored,   *)
(* the handler sets ignore and raises in the main thread, wherever that    *)
(* thread is.                                                              *)
(*  - ShutdownSoon raised in the main loop is caught by the inner          *)
(*    `except ShutdownSoon:`, which installs a new SignalHandler (ignore   *)
(*    is False again) and goes on to stop_soon() the workers;              *)
(*  - Shutdown there, and Shutdown or ShutdownSoon in the stop-soon block, *)
(*    are swallowed by `except (Shutdown, ShutdownSoon):`, and the finally *)
(*    block runs with no exception pending;                                *)
(*  - an exception raised in the body of `except UpdateRequired:`          *)
(*    replaces the one being handled and propagates through finally;       *)
(*  - UpdateRequired is re-raised through the finally block.               *)
(* The handler has set ignore, so the finally block's first statement      *)
(* (handler.ignore = True) changes nothing.                                *)
(***************************************************************************)
\* Signal with handlers that never ignore: an exception raised in the
\* finally block ends it
Signal_NoIgnore(sig) ==
    /\ Running
    /\ spc \in {"loop", "soon_stop", "soon_wait", "except_update", "fin_stop", "fin_wait"}
    /\ IF spc = "loop" /\ sig = "SIGINT"
       THEN /\ ignore' = FALSE
            /\ spc' = "soon_stop"
            /\ UNCHANGED raised
       ELSE /\ ignore' = TRUE
            /\ raised' = SignalException(sig)
            /\ spc' = IF spc \in {"fin_stop", "fin_wait"} THEN "return" ELSE "fin_stop"
    /\ sidx' = 1
    /\ UNCHANGED <<wvars, exit, auto_update, jvars, xvars, yvars>>

Signal(sig) ==
    /\ Running /\ ~ignore
    /\ spc \in {"loop", "soon_stop", "soon_wait", "except_update"}
    /\ IF spc = "loop" /\ sig = "SIGINT"
       THEN /\ ignore' = FALSE
            /\ spc' = "soon_stop"
            /\ UNCHANGED raised
       ELSE /\ ignore' = TRUE
            /\ raised' = IF spc = "except_update" \/ sig = "SIGUSR1"
                         THEN SignalException(sig)
                         ELSE "none"
            /\ spc' = "fin_stop"
    /\ sidx' = 1
    /\ UNCHANGED <<wvars, exit, auto_update, jvars, xvars, yvars>>

\* for worker in workers: worker.stop_soon()
SupSoonStop ==
    /\ Running /\ spc = "soon_stop"
    /\ stop_soon(sidx)
    /\ sidx' = IF sidx = LastWorker THEN 1 ELSE sidx + 1
    /\ spc' = IF sidx = LastWorker THEN "soon_wait" ELSE "soon_stop"
    /\ UNCHANGED <<pc, job, fatal_error, finished, path, resp,
                   died_alive, evlog, ignore, raised, exit, auto_update, jvars, xvars, yvars>>

\* for worker in workers: while not worker.finished.wait(0.5): pass
\* -- and after the last worker the finally block begins
SupSoonWait ==
    /\ Running /\ spc = "soon_wait"
    /\ finished[sidx]
    /\ sidx' = IF sidx = LastWorker THEN 1 ELSE sidx + 1
    /\ spc' = IF sidx = LastWorker THEN "fin_stop" ELSE "soon_wait"
    /\ ignore' = IF sidx = LastWorker THEN TRUE ELSE ignore
    /\ UNCHANGED <<wvars, raised, exit, auto_update, jvars, xvars, yvars>>

\* SupFinStop calling stop_soon() instead of stop()
SupFinStop_Soon ==
    /\ Running /\ spc = "fin_stop"
    /\ stop_soon(sidx)
    /\ sidx' = IF sidx = LastWorker THEN 1 ELSE sidx + 1
    /\ spc' = IF sidx = LastWorker THEN "fin_wait" ELSE "fin_stop"
    /\ UNCHANGED <<pc, job, fatal_error, finished, path, resp,
                   died_alive, evlog, ignore, raised, exit, auto_update, jvars, xvars, yvars>>

\* finally: for worker in workers: worker.stop()
SupFinStop ==
    /\ Running /\ spc = "fin_stop"
    /\ stop(sidx)
    /\ sidx' = IF sidx = LastWorker THEN 1 ELSE sidx + 1
    /\ spc' = IF sidx = LastWorker THEN "fin_wait" ELSE "fin_stop"
    /\ UNCHANGED <<pc, job, fatal_error, finished, path, resp,
                   died_alive, evlog, ignore, raised, exit, auto_update, jvars, xvars, yvars>>

\* finally: for worker in workers: worker.finished.wait()
SupFinWait ==
    /\ Running /\ spc = "fin_wait"
    /\ finished[sidx]
    /\ sidx' = IF sidx = LastWorker THEN 1 ELSE sidx + 1
    /\ spc' = IF sidx = LastWorker THEN "return" ELSE "fin_wait"
    /\ UNCHANGED <<wvars, ignore, raised, exit, auto_update, jvars, xvars, yvars>>

(***************************************************************************)
(* The end of cmd_run and main's handlers: Shutdown and ShutdownSoon are   *)
(* swallowed (return 0), UpdateRequired reaches main (70, after            *)
(* update_self() under --auto-update), anything else is uncaught (1).      *)
(***************************************************************************)
SupReturn ==
    /\ Running /\ spc = "return"
    /\ CASE raised \in {"none", "Shutdown", "ShutdownSoon"} ->
                exit' = 0 /\ spc' = "exited"
         [] raised = "UpdateRequired" ->
                IF auto_update
                THEN exit' = exit /\ spc' = "main_update"
                ELSE exit' = 70 /\ spc' = "exited"
         [] OTHER ->
                exit' = 1 /\ spc' = "exited"
    /\ UNCHANGED <<wvars, sidx, ignore, raised, auto_update, jvars, xvars, yvars>>

\* main: update_self() returns, raises (ConfigError, a failed request), or
\* replaces the process image (os.execv); then `return 70`
MainUpdate ==
    /\ Running /\ spc = "main_update"
    /\ exit' \in {70, 1, -2}
    /\ spc' = "exited"
    /\ UNCHANGED <<wvars, sidx, ignore, raised, auto_update, jvars, xvars, yvars>>

(***************************************************************************)
(* The state after cmd_run has started the workers and installed the       *)
(* signal handler.                                                         *)
(***************************************************************************)
RunInit ==
    /\ pc = [w \in Workers |-> "run"]
    /\ alive = [w \in Workers |-> TRUE]
    /\ job = [w \in Workers |-> NoJob]
    /\ stockfish = [w \in Workers |-> "None"]
    /\ proc = [w \in Workers |-> 0]
    /\ fatal_error = [w \in Workers |-> "none"]
    /\ finished = [w \in Workers |-> FALSE]
    /\ sleep = [w \in Workers |-> FALSE]
    /\ path = [w \in Workers |-> NoPath]
    /\ resp = [w \in Workers |-> NoResp]
    /\ died_alive = [w \in Workers |-> FALSE]
    /\ evlog = [w \in Workers |-> <<>>]
    /\ held = [w \in Workers |-> FALSE]
    /\ spc = "loop"
    /\ sidx = 1
    /\ ignore = FALSE
    /\ raised = "none"
    /\ exit = -1

\* No job is being executed step by step: Work takes a job's execution as
\* one step.
JobOff ==
    /\ jpc = "off"
    /\ work_job = [type |-> "none", moves |-> <<>>, skipPositions |-> {}]
    /\ moves = <<>>
    /\ result = [analysis |-> <<>>, move |-> <<>>]
    /\ ply = 0
    /\ part = [bestmove |-> <<>>, score |-> "none"]
    /\ line = <<>>
    /\ wire = <<>>
    /\ noise = 0
    /\ runs = 0
    /\ searched = <<>>

\* No backoff generator is stepped on its own.
BackoffOff ==
    /\ fixed = FALSE
    /\ backoff = 1
    /\ yielded = 0
    /\ delay = 0

\* No variant is being computed.
VariantOff ==
    /\ variant = ""
    /\ chess960 = FALSE
    /\ initial_fen = <<>>
    /\ modded = <<>>
    /\ modded_twice = <<>>

\* parse_bool is not being called.
ParseOff ==
    /\ inp = <<>>
    /\ word = <<>>
    /\ default = FALSE
    /\ parsed = <<>>

\* No pool is being sized.
PoolOff ==
    /\ cores = 1
    /\ threads = 1
    /\ instances = 0
    /\ buckets = <<>>
    /\ core = 0
    /\ worker_threads = <<>>

\* No worker's backoff and abort are looked at.
AcquireOff ==
    /\ sleep_t = 0
    /\ abort = -1

NoScore == [kind |-> "None", value |-> 0, lowerbound |-> FALSE, upperbound |-> FALSE]

NoLine == [kind |-> "None", value |-> 0, flag |-> "none", form |-> "none"]

\* No call of go() is looked at line by line.
ScoreOff ==
    /\ score = NoScore
    /\ before = NoScore
    /\ told = NoLine
    /\ infos = 0
    /\ multipv = <<>>
    /\ pv = <<>>
    /\ pv_before = <<>>
    /\ go_raised = FALSE

\* No lock is looked at: every lock is free.
LockOff ==
    /\ status_lock = [w \in Workers |-> "free"]
    /\ stockfish_lock = [w \in Workers |-> "free"]
    /\ popen_lock = 0

YOff == ParseOff /\ PoolOff /\ AcquireOff /\ ScoreOff /\ LockOff

\* No progress reporter runs.
ProgressOff ==
    /\ queue = <<>>
    /\ sends = 0
    /\ outcome = "none"
    /\ item = "none"
    /\ rpc = "off"
    /\ stopping = "off"
    /\ late = 0

Init ==
    /\ RunInit
    /\ auto_update \in BOOLEAN
    /\ JobOff
    /\ BackoffOff /\ VariantOff /\ ProgressOff /\ YOff

WorkerStep(w) ==
    \/ Run(w)
    \/ Finally(w)
    \/ StartStockfish(w)
    \/ Handshake(w)
    \/ Work(w)
    \/ DiedCatch(w)
    \/ AbortJob(w)
    \/ DiedSleep(w)
    \/ DiedKill(w)
    \/ Post(w)
    \/ Sleep(w)
    \/ EngineExit(w)

Next ==
    \/ \E w \in Workers : WorkerStep(w)
    \/ SupCheck
    \/ SupStats
    \/ \E sig \in {"SIGINT", "SIGTERM", "SIGUSR1"} : Signal(sig)
    \/ SupExceptUpdate
    \/ SupSoonStop
    \/ SupSoonWait
    \/ SupFinStop
    \/ SupFinWait
    \/ SupReturn
    \/ MainUpdate

Spec == Init /\ [][Next]_vars

(***************************************************************************)
(* Strings.  A line or a moves string is a sequence of items, each a       *)
(* single space " " or a word (a maximal run of characters that are not    *)
(* white space); "" is the empty sequence.  A token is a word, or "" for   *)
(* the empty token.                                                        *)
(***************************************************************************)
Str(token) == IF token = "" THEN <<>> ELSE <<token>>

Word(s) == IF s = <<>> THEN "" ELSE s[1]

RECURSIVE Join(_)
\* " ".join(tokens)
Join(tokens) ==
    IF tokens = <<>> THEN <<>>
    ELSE IF Len(tokens) = 1 THEN Str(tokens[1])
    ELSE Str(tokens[1]) \o <<" ">> \o Join(Tail(tokens))

RECURSIVE Split(_)
\* s.split(" "): one token per separator, plus one; "" gives [""]
Split(s) ==
    IF \A i \in 1 .. Len(s) : s[i] # " "
    THEN <<Word(s)>>
    ELSE LET i == CHOOSE k \in 1 .. Len(s) :
                      s[k] = " " /\ \A j \in 1 .. k - 1 : s[j] # " "
         IN  <<Word(SubSeq(s, 1, i - 1))>> \o Split(SubSeq(s, i + 1, Len(s)))

NonEmpty(token) == token # ""

\* s.split(): the words of s; "" gives []
SplitWs(s) == SelectSeq(Split(s), NonEmpty)

(***************************************************************************)
(* Jobs the coordinator hands out: work.type, moves (M move tokens joined  *)
(* by single spaces, "" for M = 0) and, for analysis, skipPositions.       *)
(***************************************************************************)
MoveToken(i) == IF i % 2 = 1 THEN "e2e4" ELSE "e7e5"
Tokens(n) == [i \in 1 .. n |-> MoveToken(i)]

WorkJobs ==
    UNION { { [type |-> "analysis", moves |-> Join(Tokens(n)), skipPositions |-> sk] :
                 sk \in SUBSET (0 .. n) }
            \cup { [type |-> "move", moves |-> Join(Tokens(n)), skipPositions |-> {}] } :
            n \in 0 .. MaxMoves }

\* go: info = {}; info["bestmove"] = None.  An optional value is <<>>
\* (None, or the key is absent) or <<v>>.
NoInfo == [bestmove |-> <<>>, score |-> "none"]

\* An element of result["analysis"]: None, {"skipped": True}, or a part.
NoneElement == [kind |-> "None", bestmove |-> <<>>, score |-> "none"]
SkippedElement == [kind |-> "skipped", bestmove |-> <<>>, score |-> "none"]
PartElement(p) == [kind |-> "info", bestmove |-> p.bestmove, score |-> p.score]

(***************************************************************************)
(* Lines the engine can answer with.  Of an info line the model keeps the  *)
(* score its tokens set: none ("none"), a centipawn score ("cp"), or mate  *)
(* in 0 ("mate 0"); no line names a multipv.                               *)
(***************************************************************************)
BestmoveArgs ==
    { <<"e2e4">>, <<"e2e4", " ", "ponder", " ", "e7e5">>, <<"(none)">>, <<>> }

EngineLines ==
    { [command |-> "bestmove", arg |-> a, score |-> "none"] : a \in BestmoveArgs }
    \cup { [command |-> "info", arg |-> <<>>, score |-> sc] : sc \in {"none", "cp", "mate 0"} }
    \cup { [command |-> "readyok", arg |-> <<>>, score |-> "none"] }

(***************************************************************************)
(* Positions.  A position is the job's initial position with the moves     *)
(* played from it; sf.get_fen(variant, fen, moves, ...) plays moves from   *)
(* fen.                                                                    *)
(***************************************************************************)
JobPosition == [position |-> "startpos", played |-> <<>>]

GetFen(fen, mvs) == [position |-> fen.position, played |-> fen.played \o mvs]

\* go without the normalisation of "(none)"
GoBestmove_Literal(arg) == <<SplitWs(arg)[1]>>

\* go: bestmove = arg.split()[0];
\*     if bestmove and bestmove != "(none)": info["bestmove"] = bestmove
GoBestmove(arg) ==
    LET bestmove == SplitWs(arg)[1]
    IN  IF bestmove # "" /\ bestmove # "(none)" THEN <<bestmove>> ELSE <<>>

rvars == <<wvars, svars>>

\* set_variant_options (UCI_Chess960, UCI_Variant), Skill Level,
\* UCI_AnalyseMode, ucinewgame, and the isready that isready() sends
Configure == <<"setoption", "setoption", "setoption", "setoption",
               "ucinewgame", "isready">>

\* Begin with the isready left out
Begin_NoIsready(j) ==
    /\ jpc = "begin" /\ runs < MaxRuns
    /\ runs' = runs + 1
    /\ work_job' = j
    /\ moves' = Split(j.moves)
    /\ result' = [analysis |-> IF j.type = "analysis"
                               THEN [i \in 1 .. Len(Split(j.moves)) + 1 |-> NoneElement]
                               ELSE <<>>,
                  move |-> <<>>]
    /\ wire' = wire \o SubSeq(Configure, 1, Len(Configure) - 1)
    /\ ply' = Len(Split(j.moves))
    /\ part' = NoInfo
    /\ line' = <<>>
    /\ noise' = 0
    /\ searched' = <<>>
    /\ jpc' = IF j.type = "analysis" THEN "loop" ELSE "go"
    /\ UNCHANGED <<rvars, xvars, yvars>>

(***************************************************************************)
(* Worker.analysis / Worker.bestmove up to the isready: split the moves,   *)
(* allocate the analysis array, configure the engine.                      *)
(***************************************************************************)
Begin(j) ==
    /\ jpc = "begin" /\ runs < MaxRuns
    /\ runs' = runs + 1
    /\ work_job' = j
    /\ moves' = Split(j.moves)
    /\ result' = [analysis |-> IF j.type = "analysis"
                               THEN [i \in 1 .. Len(Split(j.moves)) + 1 |-> NoneElement]
                               ELSE <<>>,
                  move |-> <<>>]
    /\ wire' = wire \o Configure
    /\ ply' = Len(Split(j.moves))
    /\ part' = NoInfo
    /\ line' = <<>>
    /\ noise' = 0
    /\ searched' = <<>>
    /\ jpc' = "isready"
    /\ UNCHANGED <<rvars, xvars, yvars>>

\* isready: the receive loop; anything but readyok is passed over
RecvIsready(l) ==
    /\ jpc = "isready"
    /\ IF l.command = "readyok"
       THEN /\ wire' = Append(wire, "readyok")
            /\ noise' = 0
            /\ jpc' = IF work_job.type = "analysis" THEN "loop" ELSE "go"
       ELSE /\ noise < MaxNoise
            /\ noise' = noise + 1
            /\ UNCHANGED <<wire, jpc>>
    /\ UNCHANGED <<work_job, moves, result, ply, part, line, runs, searched, rvars, xvars, yvars>>

\* recv: readline returned "" (the engine is gone): EOFError
EngineEOF ==
    /\ jpc \in {"isready", "recv_go"}
    /\ jpc' = "died"
    /\ UNCHANGED <<work_job, moves, result, ply, part, line, wire, noise, runs, searched, rvars, xvars, yvars>>

\* go: send position, send go, info = {"bestmove": None}
Go ==
    /\ wire' = wire \o <<"position", "go">>
    /\ part' = NoInfo
    /\ line' = <<>>
    /\ noise' = 0
    /\ jpc' = "recv_go"

\* The whole list in place of the slice.
Slice_All(s, n) == s

\* s[0:n]
Slice(s, n) == SubSeq(s, 1, IF n < Len(s) THEN n ELSE Len(s))

\* AnalysisSkip without the assignment
AnalysisSkip_NoMark ==
    /\ jpc = "loop" /\ ply >= 0 /\ ply \in work_job.skipPositions
    /\ ply' = ply - 1
    /\ UNCHANGED <<jpc, work_job, moves, result, part, line, wire, noise, runs, searched, rvars, xvars, yvars>>

\* analysis: if ply in skip: result["analysis"][ply] = {"skipped": True}
AnalysisSkip ==
    /\ jpc = "loop" /\ ply >= 0 /\ ply \in work_job.skipPositions
    /\ result' = [result EXCEPT !.analysis[ply + 1] = SkippedElement]
    /\ ply' = ply - 1
    /\ UNCHANGED <<jpc, work_job, moves, part, line, wire, noise, runs, searched, rvars, xvars, yvars>>

\* analysis: part = go(self.stockfish, fen, moves[0:ply], ...)
AnalysisGo ==
    /\ jpc = "loop" /\ ply >= 0 /\ ply \notin work_job.skipPositions
    /\ Go
    /\ searched' = Append(searched, [ply |-> ply, moves |-> Slice(moves, ply)])
    /\ UNCHANGED <<work_job, moves, result, ply, runs, rvars, xvars, yvars>>

\* bestmove: part = go(self.stockfish, fen, moves, ...)
BestmoveGo ==
    /\ jpc = "go"
    /\ Go
    /\ UNCHANGED <<work_job, moves, result, ply, runs, searched, rvars, xvars, yvars>>

(***************************************************************************)
(* go: the receive loop.  A bestmove line ends it (IndexError when the     *)
(* line has no argument), an info line updates info, anything else is      *)
(* passed over.                                                            *)
(***************************************************************************)
RecvGo(l) ==
    /\ jpc = "recv_go"
    /\ CASE l.command = "bestmove" ->
                IF SplitWs(l.arg) = <<>>
                THEN /\ jpc' = "error"
                     /\ UNCHANGED <<part, line, wire, noise>>
                ELSE /\ part' = [part EXCEPT !.bestmove = GoBestmove(l.arg)]
                     /\ line' = l.arg
                     /\ wire' = Append(wire, "bestmove")
                     /\ noise' = 0
                     /\ jpc' = "go_returned"
         [] l.command = "info" ->
                /\ noise < MaxNoise
                /\ noise' = noise + 1
                /\ part' = [part EXCEPT !.score = IF l.score # "none" THEN l.score ELSE @]
                /\ UNCHANGED <<jpc, line, wire>>
         [] OTHER ->
                /\ noise < MaxNoise
                /\ noise' = noise + 1
                /\ UNCHANGED <<jpc, part, line, wire>>
    /\ UNCHANGED <<work_job, moves, result, ply, runs, searched, rvars, xvars, yvars>>

\* analysis: part["score"] (KeyError without a score);
\*           result["analysis"][ply] = part
AnalysisStore ==
    /\ jpc = "go_returned" /\ work_job.type = "analysis"
    /\ IF part.score = "none"
       THEN /\ jpc' = "error"
            /\ UNCHANGED <<result, ply>>
       ELSE /\ result' = [result EXCEPT !.analysis[ply + 1] = PartElement(part)]
            /\ ply' = ply - 1
            /\ jpc' = "loop"
    /\ UNCHANGED <<work_job, moves, part, line, wire, noise, runs, searched, rvars, xvars, yvars>>

\* analysis: the loop is over: return result
AnalysisReturn ==
    /\ jpc = "loop" /\ ply < 0
    /\ jpc' = "returned"
    /\ UNCHANGED <<work_job, moves, result, ply, part, line, wire, noise, runs, searched, rvars, xvars, yvars>>

\* bestmove: if len(job["moves"]) > 0: fen = sf.get_fen(..., fen, moves, ...)
\* (an exception of get_fen is logged and fen stays job["position"]);
\* result["move"] = {"bestmove": part["bestmove"], "fen": fen}; return
BestmoveReturn ==
    /\ jpc = "go_returned" /\ work_job.type = "move"
    /\ \E failed \in BOOLEAN :
          result' = [result EXCEPT !.move =
                        <<[bestmove |-> part.bestmove,
                           fen |-> IF work_job.moves # <<>> /\ ~failed
                                   THEN GetFen(JobPosition, moves)
                                   ELSE JobPosition]>>]
    /\ jpc' = "returned"
    /\ UNCHANGED <<work_job, moves, ply, part, line, wire, noise, runs, searched, rvars, xvars, yvars>>

\* run_inner: the result is posted and the next iteration works on the
\* next job, with the same engine process
NextJob ==
    /\ jpc = "returned" /\ runs < MaxRuns
    /\ jpc' = "begin"
    /\ part' = NoInfo
    /\ line' = <<>>
    /\ UNCHANGED <<work_job, moves, result, ply, wire, noise, runs, searched, rvars, xvars, yvars>>

\* No worker thread, no supervisor: the job's execution alone.
RunOff ==
    /\ RunInit
    /\ auto_update = FALSE

InitJob ==
    /\ RunOff
    /\ jpc = "begin"
    /\ work_job = [type |-> "none", moves |-> <<>>, skipPositions |-> {}]
    /\ moves = <<>>
    /\ result = [analysis |-> <<>>, move |-> <<>>]
    /\ ply = 0
    /\ part = NoInfo
    /\ line = <<>>
    /\ wire = <<>>
    /\ noise = 0
    /\ runs = 0
    /\ searched = <<>>
    /\ BackoffOff /\ VariantOff /\ ProgressOff /\ YOff

NextJobStep ==
    \/ \E j \in WorkJobs : Begin(j)
    \/ \E l \in EngineLines : RecvIsready(l)
    \/ EngineEOF
    \/ AnalysisSkip
    \/ AnalysisGo
    \/ BestmoveGo
    \/ \E l \in EngineLines : RecvGo(l)
    \/ AnalysisStore
    \/ AnalysisReturn
    \/ BestmoveReturn
    \/ NextJob

SpecJob == InitJob /\ [][NextJobStep]_vars

(***************************************************************************)
(* Properties of the worker loop and the supervisor (specification Spec).  *)
(* resp[w] and path[w] are set from the POST of an iteration until         *)
(* run_inner returns, so a state predicate over them speaks of the rest of *)
(* that iteration, its last state included.                                *)
(***************************************************************************)
IsPrefix(s, t) == Len(s) <= Len(t) /\ \A i \in 1 .. Len(s) : s[i] = t[i]

ServerError(status) == status >= 500 /\ status <= 599

(***************************************************************************)
(* The order of an analysis (specification SpecJob).                       *)
(***************************************************************************)
SearchedPlies == { searched[i].ply : i \in 1 .. Len(searched) }

\* C32: the searches of an analysis come in strictly decreasing ply order,
\* none above len(moves) or below 0, none for a skipped ply and none left
\* out above the loop's ply; the search for ply p is given the first p
\* moves; and the entries of result["analysis"] that are set form a suffix:
\* above a set entry every entry is set (a part, or skipped).
C32_DecreasingPly ==
    work_job.type = "analysis" =>
        /\ \A i \in 1 .. Len(searched) :
              /\ searched[i].ply \in 0 .. Len(moves)
              /\ Len(searched[i].moves) = searched[i].ply
              /\ IsPrefix(searched[i].moves, moves)
              /\ \A j \in i + 1 .. Len(searched) : searched[i].ply > searched[j].ply
        /\ SearchedPlies \cap work_job.skipPositions = {}
        /\ \A p \in ply + 1 .. Len(moves) :
              p \in SearchedPlies \cup work_job.skipPositions
        /\ \A p \in SearchedPlies : p >= ply
        /\ \A i \in 1 .. Len(result.analysis) :
              result.analysis[i] # NoneElement =>
                  \A j \in i + 1 .. Len(result.analysis) :
                      result.analysis[j] # NoneElement

\* An analysis of two moves that skips position 1 has returned: it searched
\* ply 2 with both moves, then ply 0 with none.
C32_Witness ==
    /\ jpc = "returned" /\ work_job.type = "analysis"
    /\ moves = <<"e2e4", "e7e5">>
    /\ searched = <<[ply |-> 2, moves |-> <<"e2e4", "e7e5">>],
                    [ply |-> 0, moves |-> <<>>]>>
    /\ result.analysis[2] = SkippedElement
    /\ result.analysis[1].kind = "info" /\ result.analysis[3].kind = "info"

\* C4: in an iteration whose POST (of a result, or acquire) was answered
\* with 204, the worker's current job is null from the handling of the
\* response to the end of the iteration, whatever job it held before.
C4_NoContentClearsJob ==
    \A w \in Workers : resp[w].status = 204 => job[w] = NoJob

\* C4 witness: a result POST of a held job was answered 204 and the
\* iteration is about to end with no job.
C4_Witness ==
    \E w \in Workers :
        /\ resp[w].status = 204 /\ path[w].kind = "analysis"
        /\ job[w] = NoJob /\ pc[w] = "sleep"

\* C5 as stated: once a worker has recorded UpdateRequired (the coordinator
\* answered 4xx with the update marker), the process, when it ends, ends
\* with exit status 70.
C5_Original_ExitIs70 ==
    (spc = "exited" /\ \E w \in Workers : fatal_error[w] = "UpdateRequired")
        => exit = 70

\* C5 amended: a worker that got the update marker records UpdateRequired
\* and goes straight to setting finished, holding no job; when
\* UpdateRequired is what leaves cmd_run, every worker has been stopped
\* (alive false) and has finished, and the exit status is 70 -- unless
\* --auto-update lets update_self() raise (1) or re-execute the process
\* (-2).
C5_UpdateRequired ==
    /\ \A w \in Workers :
          fatal_error[w] = "UpdateRequired" =>
              pc[w] \in {"finally", "done"} /\ job[w] = NoJob
    /\ (spc \in {"main_update", "exited"} /\ raised = "UpdateRequired") =>
          /\ \A w \in Workers :
                ~alive[w] /\ finished[w] /\ pc[w] = "done"
          /\ spc = "exited" => (exit = 70 \/ (auto_update /\ exit \in {1, -2}))
          /\ (spc = "exited" /\ ~auto_update) => exit = 70

\* C5 witness: one worker recorded UpdateRequired, the other did not and
\* was stopped by the supervisor, and the process ended with status 70.
C5_Witness ==
    /\ exit = 70 /\ ~auto_update
    /\ fatal_error[1] = "UpdateRequired" /\ fatal_error[2] = "none"
    /\ finished[1] /\ finished[2] /\ ~alive[2]

\* C6 as stated: after a transient transport failure (RequestException or
\* 5xx) of the POST of a job's result, the worker still holds that job.
C6_Original_KeepsJob ==
    \A w \in Workers :
        ((resp[w].status = 0 \/ ServerError(resp[w].status))
            /\ path[w].kind \in {"analysis", "move"})
        => job[w].id = path[w].id

\* C6 amended: after a transient transport failure (RequestException or
\* 5xx) the worker backs off (it is at its sleep) and has dropped the job:
\* its current job is null for the rest of the iteration.
C6_TransientDropsJob ==
    \A w \in Workers :
        (resp[w].status = 0 \/ ServerError(resp[w].status))
        => job[w] = NoJob /\ pc[w] = "sleep" /\ fatal_error[w] = "none"

\* C6 witness: the POST of a held job's result failed with a 5xx, and the
\* worker sleeps with no job.
C6_Witness ==
    \E w \in Workers :
        /\ ServerError(resp[w].status) /\ path[w].kind = "analysis"
        /\ job[w] = NoJob /\ pc[w] = "sleep"

\* C7 as stated: after a 200 or a 202 response carrying a job, the response
\* body is the worker's current job.
C7_Original_200CreatesJob ==
    \A w \in Workers :
        (resp[w].status \in {200, 202} /\ resp[w].body = "job")
        => job[w] = resp[w].job

\* C7 amended: only a 202 response creates a job: after a 202 carrying a
\* job the response body is the worker's current job; a 200 response, with
\* a job in its body or not, is an unexpected status: the current job is
\* null and the worker backs off.
C7_Only202CreatesJob ==
    \A w \in Workers :
        /\ (resp[w].status = 202 /\ resp[w].body = "job")
              => job[w] = resp[w].job /\ pc[w] = "run"
        /\ resp[w].status = 200 => job[w] = NoJob /\ pc[w] = "sleep"

\* C7 witness: a 200 response carrying a job was processed and the worker
\* holds no job.
C7_Witness ==
    \E w \in Workers :
        resp[w].status = 200 /\ resp[w].body = "job" /\ job[w] = NoJob

DiedStepsInCode == <<"died", "abort", "sleep", "kill", "spawn">>
DiedStepsInClaim == <<"died", "abort", "kill", "sleep", "spawn">>

C9_OneEngine ==
    [][\A w \in Workers :
          /\ proc[w] <= 1 /\ proc'[w] <= 1
          /\ proc'[w] > proc[w] =>
                /\ pc[w] = "start_stockfish"
                /\ stockfish[w] \in {"None", "exited"}
                /\ proc[w] = 0]_vars

\* C9 witness: a worker has respawned an engine after kill_stockfish and
\* owns exactly one live subprocess.
C9_Witness ==
    \E w \in Workers :
        /\ evlog[w] = DiedStepsInCode /\ pc[w] = "uci"
        /\ proc[w] = 1 /\ stockfish[w] = "running"

(***************************************************************************)
(* Properties of the execution of a job (specification SpecJob).           *)
(***************************************************************************)
Returned(type) == jpc = "returned" /\ work_job.type = type

\* C1: when Worker.analysis returns, the element at index p of the analysis
\* array is {"skipped": true} exactly when p is in skipPositions; every
\* other element is a search info with a score and a bestmove that is a
\* move token or null, never the literal "(none)"; no element is None.
C1_AnalysisElements ==
    Returned("analysis") =>
        \A p \in 0 .. Len(result.analysis) - 1 :
            LET e == result.analysis[p + 1]
            IN  /\ e.kind = "skipped" <=> p \in work_job.skipPositions
                /\ e.kind # "None"
                /\ e.kind # "skipped" =>
                      /\ e.kind = "info" /\ e.score # "none"
                      /\ e.bestmove \in {<<>>} \cup { <<MoveToken(i)>> : i \in 1 .. 2 }

\* C1 witness: an analysis returned with a skipped element, an element
\* with a move as bestmove and an element with a null bestmove.
C1_Witness ==
    /\ Returned("analysis")
    /\ \E p, q, r \in 1 .. Len(result.analysis) :
          /\ result.analysis[p].kind = "skipped"
          /\ result.analysis[q].kind = "info" /\ result.analysis[q].bestmove = <<>>
          /\ result.analysis[r].kind = "info" /\ result.analysis[r].bestmove = <<"e2e4">>

\* C2 as stated: for a job whose moves string has M move tokens (M = 0 for
\* the empty string), the analysis array has exactly M + 1 elements.
C2_ArrayLength ==
    Returned("analysis") =>
        Len(result.analysis) = Len(SplitWs(work_job.moves)) + 1

\* C3: when go returns, the bestmove it reports is the first token of the
\* argument of the engine's bestmove line, with "(none)" turned into null;
\* it is never the literal "(none)"; and Worker.bestmove returns that value
\* in result["move"].
C3_BestmoveToken ==
    /\ jpc = "go_returned" =>
          /\ part.bestmove = IF Head(line) = "(none)" THEN <<>> ELSE <<Head(line)>>
          /\ part.bestmove # <<"(none)">>
    /\ Returned("move") =>
          /\ Len(result.move) = 1
          /\ result.move[1].bestmove = part.bestmove
          /\ part.bestmove # <<"(none)">>

\* C3 witness: go returned on the line "bestmove (none)" with a null
\* bestmove.
C3_Witness ==
    jpc = "go_returned" /\ line = <<"(none)">> /\ part.bestmove = <<>>

RECURSIVE Last(_, _)
\* The last place up to i where the dialogue has a line of these kinds
\* (0: nowhere).
Last(i, kinds) ==
    IF i = 0 THEN 0
    ELSE IF wire[i] \in kinds THEN i
    ELSE Last(i - 1, kinds)

\* C10: in the dialogue with the engine, every position and every go is
\* sent after a readyok was received that answers an isready sent after
\* every earlier setoption and ucinewgame; go is sent right after position
\* and position is followed by nothing but go; and after a go no position,
\* go or setoption is sent before a bestmove line has been consumed.
C10_DialogueOrdered ==
    \A i \in 1 .. Len(wire) :
        /\ wire[i] \in {"position", "go"} =>
              \E k \in Last(i - 1, {"setoption", "ucinewgame"}) + 1 .. i - 1 :
                  /\ wire[k] = "isready"
                  /\ \E r \in k + 1 .. i - 1 : wire[r] = "readyok"
        /\ wire[i] = "go" => i > 1 /\ wire[i - 1] = "position"
        /\ (wire[i] = "position" /\ i < Len(wire)) => wire[i + 1] = "go"
        /\ wire[i] \in {"position", "go", "setoption"} =>
              LET g == Last(i - 1, {"go"})
              IN  g = 0 \/ \E b \in g + 1 .. i - 1 : wire[b] = "bestmove"

\* C10 witness: a second job's search is under way, after the first job's
\* searches: the engine was configured twice and has been sent three go.
C10_Witness ==
    /\ jpc = "recv_go" /\ runs = 2
    /\ Cardinality({ i \in 1 .. Len(wire) : wire[i] = "go" }) >= 3
    /\ Cardinality({ i \in 1 .. Len(wire) : wire[i] = "ucinewgame" }) = 2

\* C11 as stated: when go returns info whose score an info line made
\* mate 0 (multipv unspecified), the dialogue since the go command is:
\* stop sent, the bestmove line consumed, isready sent, readyok received.
C11_StopOnMateZero ==
    (jpc = "go_returned" /\ part.score = "mate 0") =>
        SubSeq(wire, Last(Len(wire), {"go"}) + 1, Len(wire))
            = <<"stop", "bestmove", "isready", "readyok">>

\* C12 as stated: the fen of the result Worker.bestmove returns is the
\* position reached from the job's position by the job's moves followed by
\* the engine's bestmove, for empty and non-empty move lists alike.
C12_FenAfterBestmove ==
    Returned("move") =>
        result.move[1].fen
            = GetFen(JobPosition, SplitWs(work_job.moves) \o part.bestmove)

(***************************************************************************)
(* Properties of cancellation (specification Spec).  A step of the         *)
(* supervisor is a step that changes svars; in "soon_stop" and "fin_stop"  *)
(* it is a call of stop_soon() or stop() on worker sidx.                   *)
(***************************************************************************)
SupervisorStep == svars' # svars

StopSoonStep ==
    spc = "soon_stop" /\ SupervisorStep /\ spc' \in {"soon_stop", "soon_wait"}

StopStep == spc = "fin_stop" /\ SupervisorStep

\* C13: the first interrupt, received in the supervisor's main loop, starts
\* shutdown-soon and touches no worker; shutdown-soon calls stop_soon() on
\* each worker in turn (alive false, sleeper set) and kills no engine, then
\* waits for each worker's finished event; when that wait ends early (only
\* a further signal ends it while a worker is unfinished) the supervisor
\* goes on to call stop() on every worker, which empties the engine handle
\* and leaves the worker no live engine.
C13_SoonThenStop ==
    [][/\ (spc = "loop" /\ spc' = "soon_stop") =>
              ~ignore /\ ~ignore' /\ sidx' = 1 /\ wvars' = wvars
       /\ StopSoonStep =>
              /\ ~alive'[sidx] /\ sleep'[sidx]
              /\ stockfish' = stockfish /\ proc' = proc /\ job' = job
              /\ spc' = "soon_wait" => \A w \in Workers : ~alive'[w]
       /\ (spc = "soon_wait" /\ SupervisorStep) =>
              /\ wvars' = wvars
              /\ spc' = "soon_wait" => finished[sidx]
              /\ spc' # "soon_wait" => spc' = "fin_stop" /\ sidx' = 1 /\ ignore'
       /\ StopStep =>
              /\ ~alive'[sidx] /\ sleep'[sidx]
              /\ stockfish'[sidx] = "None" /\ proc'[sidx] = 0
              /\ spc' = "fin_wait" => \A w \in Workers : ~alive'[w]]_vars

\* C13 witness: a second signal has ended the wait of shutdown-soon: every
\* worker has had stop_soon(), one is unfinished with its engine running,
\* and the supervisor is about to call stop() on the first worker.
C13_Witness ==
    /\ spc = "fin_stop" /\ sidx = 1
    /\ \A w \in Workers : ~alive[w]
    /\ \E w \in Workers : ~finished[w] /\ stockfish[w] = "running"

\* C14 as stated: a worker on which stop() was invoked while it held a
\* job does not come to set its finished event before a POST abort/<id>
\* for that job was attempted.
C14_AbortBeforeFinished ==
    \A w \in Workers : held[w] => pc[w] # "finally"

\* C15: stop_soon() clears alive and sets the sleeper, and neither kills
\* the engine nor aborts or changes the job or moves the worker thread; a
\* worker past the loop's alive check ends its iteration only by itself:
\* it leaves the engine steps for finished only with a fatal error, the
\* work step hands the job's result to the POST, and the POST is made
\* before anything else; a job is received only at the end of an
\* iteration, and a worker whose alive is false there goes from the top of
\* the loop to setting finished, without beginning the job; alive never
\* becomes true again.
C15_StopSoon ==
    [][\A w \in Workers :
          /\ alive'[w] => alive[w]
          /\ StopSoonStep =>
                /\ stockfish' = stockfish /\ proc' = proc /\ job' = job
                /\ pc' = pc /\ held' = held
          /\ (pc[w] \in {"start_stockfish", "uci", "work"} /\ pc'[w] = "finally")
                => fatal_error'[w] # "none"
          /\ (pc[w] = "work" /\ pc'[w] = "post")
                => path'[w] = WorkPath(job[w]) /\ job'[w] = job[w]
          /\ (pc[w] = "post" /\ pc'[w] # "post") => resp'[w] # NoResp
          /\ (job'[w] # job[w] /\ job'[w] # NoJob)
                => pc[w] = "post" /\ pc'[w] = "run"
          /\ (pc[w] = "run" /\ ~alive[w] /\ pc'[w] # "run") => pc'[w] = "finally"
          /\ (finished'[w] /\ ~finished[w]) => pc[w] = "finally"]_vars

\* C15 witness: during shutdown-soon a worker with alive false and its
\* engine running has posted the result of its job and was handed a new
\* job, which it is not to begin.
C15_Witness ==
    /\ spc = "soon_wait"
    /\ \E w \in Workers :
          /\ ~alive[w] /\ stockfish[w] = "running" /\ pc[w] = "run"
          /\ path[w].kind \in {"analysis", "move"}
          /\ resp[w].status = 202 /\ job[w] # NoJob

\* C16: the sleeper, once set, stays set, and it is set only with alive
\* false; a backoff sleep that ends with the sleeper set returns to the top
\* of the loop (after the kill, in the dead-engine handler), and from the
\* top of the loop a worker whose sleeper is set starts no iteration: it
\* goes on to set finished.
C16_SleeperCancels ==
    [][\A w \in Workers :
          /\ sleep[w] => sleep'[w] /\ ~alive[w] /\ ~alive'[w]
          /\ (sleep[w] /\ pc[w] = "sleep" /\ pc'[w] # "sleep") => pc'[w] = "run"
          /\ (sleep[w] /\ pc[w] = "died_sleep" /\ pc'[w] # "died_sleep")
                => pc'[w] = "died_kill"
          /\ (sleep[w] /\ pc[w] = "died_kill" /\ pc'[w] # "died_kill")
                => pc'[w] = "run"
          /\ (sleep[w] /\ pc[w] = "run" /\ pc'[w] # "run") => pc'[w] = "finally"
          /\ (pc[w] = "finally" /\ pc'[w] # "finally") => finished'[w]]_vars

\* C16 witness: a worker is in the backoff sleep after a 204 with its
\* sleeper set.
C16_Witness ==
    \E w \in Workers :
        pc[w] = "sleep" /\ sleep[w] /\ ~alive[w] /\ resp[w].status = 204

\* C19: a worker that comes to its POST with a null job posts to acquire,
\* with the client and engine identification as body; it posts a result
\* (it ran a search) only of the job it holds; and after a 204 to acquire
\* it is at its backoff sleep with a null job.
C19_IdleAcquires ==
    \A w \in Workers :
        /\ (pc[w] = "post" /\ job[w] = NoJob) =>
              path[w] = [kind |-> "acquire", id |-> 0, request |-> "identification"]
        /\ (pc[w] = "post" /\ path[w].kind # "acquire") =>
              job[w] # NoJob /\ path[w].id = job[w].id /\ path[w].kind = job[w].type
        /\ (path[w].kind = "acquire" /\ resp[w].status = 204) =>
              pc[w] = "sleep" /\ job[w] = NoJob

\* C19 witness: a worker without a job posted to acquire, was answered 204
\* and sleeps.
C19_Witness ==
    \E w \in Workers :
        /\ pc[w] = "sleep" /\ job[w] = NoJob
        /\ path[w] = [kind |-> "acquire", id |-> 0, request |-> "identification"]
        /\ resp[w].status = 204

(***************************************************************************)
(* start_backoff: the generator of the delays of the worker's sleeps.      *)
(* random.random() is r / RandSteps for r in 0..RandSteps-1, a number in   *)
(* [0, 1); a delay is counted in units of 1/Unit seconds, so that every    *)
(* delay the model draws is an integer.                                    *)
(***************************************************************************)
MAX_BACKOFF == 30
MAX_FIXED_BACKOFF == 3
RandSteps == 4
MaxYields == 36

Unit == 2 * RandSteps

Min(a, b) == IF a < b THEN a ELSE b

\* random.random() * MAX_FIXED_BACKOFF
FixedDelay(r) == (r * MAX_FIXED_BACKOFF * Unit) \div RandSteps

\* 0.5 * backoff + 0.5 * backoff * random.random()
ExpandingDelay(b, r) == (b * Unit) \div 2 + (((b * Unit) \div 2) * r) \div RandSteps

BackoffStep_NoCap(b) == b + 1

\* backoff = min(backoff + 1, MAX_BACKOFF)
BackoffStep(b) == Min(b + 1, MAX_BACKOFF)

\* next(backoff): the generator runs to its next yield.  The first call
\* yields with backoff = 1; a later one resumes after the yield and steps
\* backoff first.  Calls are counted up to MaxYields.
Yield ==
    /\ yielded < MaxYields
    /\ \E r \in 0..(RandSteps - 1) :
        IF fixed
        THEN /\ delay' = FixedDelay(r)
             /\ UNCHANGED backoff
        ELSE LET b == IF yielded = 0 THEN backoff ELSE BackoffStep(backoff)
             IN  /\ backoff' = b
                 /\ delay' = ExpandingDelay(b, r)
    /\ yielded' = yielded + 1

\* a new generator: start_backoff(conf)
Restart ==
    /\ backoff' = 1
    /\ yielded' = 0
    /\ delay' = 0

NextDelay ==
    /\ Yield
    /\ UNCHANGED <<fixed, rvars, jvars, mvars, qvars, yvars>>

\* backoff = start_backoff(self.conf): a fresh generator replaces the old
\* one once a job has been accepted.
StartBackoff ==
    /\ yielded > 0
    /\ Restart
    /\ UNCHANGED <<fixed, rvars, jvars, mvars, qvars, yvars>>

InitBackoff ==
    /\ RunOff /\ JobOff /\ VariantOff /\ ProgressOff /\ YOff
    /\ fixed \in BOOLEAN
    /\ backoff = 1
    /\ yielded = 0
    /\ delay = 0

NextBackoff ==
    \/ NextDelay
    \/ StartBackoff

SpecBackoff == InitBackoff /\ [][NextBackoff]_vars

\* C17: in fixed mode every delay lies in [0, 3.0] seconds; in expanding
\* mode the n-th delay of a generator lies in [0.5 * b, b] seconds for
\* b = min(n, 30), so no delay exceeds 30 seconds.
C17_BackoffBounds ==
    yielded >= 1 =>
        IF fixed
        THEN 0 <= delay /\ delay <= MAX_FIXED_BACKOFF * Unit
        ELSE LET b == Min(yielded, MAX_BACKOFF)
             IN  /\ 2 * delay >= b * Unit
                 /\ delay <= b * Unit
                 /\ delay <= MAX_BACKOFF * Unit

\* The cap is in force: a delay after the 30th, drawn with the largest
\* random number.
C17_Witness ==
    /\ ~fixed
    /\ yielded > MAX_BACKOFF
    /\ delay = ExpandingDelay(MAX_BACKOFF, RandSteps - 1)

(***************************************************************************)
(* modded_variant and file_of.  A FEN is the sequence of its characters;   *)
(* the empty sequence is the empty string.                                 *)
(***************************************************************************)
IndexError == "IndexError"

Digits == <<"0", "1", "2", "3", "4", "5", "6", "7", "8", "9">>

\* p.isdigit()
IsDigit(p) == \E d \in 1..Len(Digits) : Digits[d] = p

\* int(p)
IntOf(p) == (CHOOSE d \in 1..Len(Digits) : Digits[d] = p) - 1

\* s.split(sep) for a one-character sep: the pieces between the
\* separators, empty pieces included.
RECURSIVE SplitOn(_, _)
SplitOn(s, sep) ==
    IF \A i \in 1..Len(s) : s[i] # sep
    THEN <<s>>
    ELSE LET i == CHOOSE k \in 1..Len(s) :
                      s[k] = sep /\ \A h \in 1..(k - 1) : s[h] # sep
         IN  <<SubSeq(s, 1, i - 1)>> \o SplitOn(SubSeq(s, i + 1, Len(s)), sep)

\* initial_fen.split(): the fields between runs of whitespace.
NonEmptyField(f) == f # <<>>
Fields(s) == SelectSeq(SplitOn(s, " "), NonEmptyField)

\* rank.find(piece), 0-based, -1 when the piece is not in the rank
Find(piece, rank) ==
    IF \A i \in 1..Len(rank) : rank[i] # piece
    THEN -1
    ELSE (CHOOSE k \in 1..Len(rank) :
              rank[k] = piece /\ \A h \in 1..(k - 1) : rank[h] # piece) - 1

\* sum(int(p) if p.isdigit() else 1 for p in rank[:pos])
RECURSIVE SumFiles(_, _)
SumFiles(rank, pos) ==
    IF pos = 0
    THEN 0
    ELSE SumFiles(rank, pos - 1)
            + (IF IsDigit(rank[pos]) THEN IntOf(rank[pos]) ELSE 1)

file_of(piece, rank) ==
    LET pos == Find(piece, rank)
    IN  IF pos >= 0 THEN SumFiles(rank, pos) ELSE -1

\* c in field
In(c, field) == \E i \in 1..Len(field) : field[i] = c

\* "house" in variant, over the variant names of the model
HasHouse(v) == v \in {"capahouse", "embassyhouse", "crazyhouse"}

EmbassyName_Other(v) == IF v = "capablanca" THEN "capahouse" ELSE "embassy"

\* "embassyhouse" if "house" in variant else "embassy"
EmbassyName(v) == IF HasHouse(v) THEN "embassyhouse" ELSE "embassy"

\* The conditions are evaluated left to right, as `and` does: parts[2],
\* ranks[7] and ranks[0] are only indexed when the conditions before them
\* hold, and indexing past the end raises IndexError.
modded_variant(v, c960, fen) ==
    IF ~c960 /\ v \in {"capablanca", "capahouse"} /\ fen # <<>>
    THEN LET parts == Fields(fen)
         IN  IF Len(parts) < 3
             THEN IndexError
             ELSE LET ranks == SplitOn(parts[1], "/")
                      castling == parts[3]
                  IN  IF castling = <<"-">> THEN v
                      ELSE IF ~(In("K", castling) \/ In("Q", castling)) THEN v
                      ELSE IF Len(ranks) < 8 THEN IndexError
                      ELSE IF file_of("K", ranks[8]) # 4 THEN v
                      ELSE IF ~(In("k", castling) \/ In("q", castling)) THEN v
                      ELSE IF file_of("k", ranks[1]) # 4 THEN v
                      ELSE EmbassyName(v)
    ELSE v

Variants == {"chess", "crazyhouse", "capablanca", "capahouse", "embassy", "embassyhouse"}

\* Back ranks: the Capablanca and the Embassy arrays, and a bare king
\* after four empty files.
BackRanks == {
    <<"r", "n", "a", "b", "q", "k", "b", "c", "n", "r">>,
    <<"r", "n", "b", "q", "k", "c", "a", "b", "n", "r">>,
    <<"4", "k", "5">> }

Upper(ch) ==
    CASE ch = "r" -> "R" [] ch = "n" -> "N" [] ch = "a" -> "A" [] ch = "b" -> "B"
      [] ch = "q" -> "Q" [] ch = "k" -> "K" [] ch = "c" -> "C" [] OTHER -> ch

Middle == <<"/", "1", "0", "/", "1", "0", "/", "1", "0", "/", "1", "0", "/", "1", "0", "/", "1", "0", "/">>

\* Boards of eight ranks with every pair of back ranks, and a board of
\* three ranks.
Boards ==
    { black \o Middle \o [i \in 1..Len(white) |-> Upper(white[i])] :
          black \in BackRanks, white \in BackRanks }
    \cup { <<"4", "k", "5", "/", "1", "0", "/", "4", "K", "5">> }

Castlings == { <<"K", "Q", "k", "q">>, <<"K", "q">>, <<"k", "q">>, <<"-">> }

\* The empty string, FENs of six fields, and a FEN cut after the side to
\* move.
Fens ==
    { <<>> }
    \cup { b \o <<" ", "w", " ">> \o c \o <<" ", "-", " ", "0", " ", "1">> :
               b \in Boards, c \in Castlings }
    \cup { b \o <<" ", "w">> : b \in Boards }

\* variant = modded_variant(variant, chess960, fen)
Modded ==
    /\ modded = <<>>
    /\ modded' = <<modded_variant(variant, chess960, initial_fen)>>
    /\ UNCHANGED <<variant, chess960, initial_fen, modded_twice, rvars, jvars, bvars, qvars, yvars>>

\* the function applied to its own result, with the same chess960 and FEN
ModdedAgain ==
    /\ modded # <<>> /\ modded[1] # IndexError
    /\ modded_twice = <<>>
    /\ modded_twice' = <<modded_variant(modded[1], chess960, initial_fen)>>
    /\ UNCHANGED <<variant, chess960, initial_fen, modded, rvars, jvars, bvars, qvars, yvars>>

InitVariant ==
    /\ RunOff /\ JobOff /\ BackoffOff /\ ProgressOff /\ YOff
    /\ variant \in Variants
    /\ chess960 \in BOOLEAN
    /\ initial_fen \in Fens
    /\ modded = <<>>
    /\ modded_twice = <<>>

NextVariant ==
    \/ Modded
    \/ ModdedAgain

SpecVariant == InitVariant /\ [][NextVariant]_vars

\* C18: modded_variant applied to its own result, with the same chess960
\* and initial FEN, returns that result.
C18_Idempotent ==
    modded_twice # <<>> => modded_twice = modded

\* A variant that the first application changed.
C18_Witness ==
    /\ variant = "capahouse"
    /\ modded = <<"embassyhouse">>
    /\ modded_twice # <<>>

(***************************************************************************)
(* ProgressReporter: a queue.Queue(maxsize=queue_size) that the workers    *)
(* fill with send, that the reporter thread empties in run, and that the   *)
(* main thread drains in stop.  Each method of queue.Queue holds the       *)
(* queue's mutex, so each is one step; an item is its path.                *)
(***************************************************************************)
QueueSize == 2
MaxSends == 4

\* self._poison_pill
PoisonPill == "poison"

\* path = "analysis/%s" % job["work"]["id"], one job per worker
Report(w) == IF w = 1 THEN "analysis/1" ELSE "analysis/2"

\* queue.put(item): waits for a free slot
Send_Put(w) ==
    /\ sends < MaxSends
    /\ Len(queue) < QueueSize
    /\ queue' = Append(queue, Report(w))
    /\ outcome' = "put"
    /\ sends' = sends + 1
    /\ UNCHANGED <<item, rpc, stopping, late, rvars, jvars, bvars, mvars, yvars>>

\* send: queue.put_nowait(item) raises queue.Full when qsize() >= maxsize,
\* and the handler only logs.
Send(w) ==
    /\ sends < MaxSends
    /\ IF Len(queue) >= QueueSize
       THEN /\ outcome' = "dropped"
            /\ UNCHANGED queue
       ELSE /\ queue' = Append(queue, Report(w))
            /\ outcome' = "put"
    /\ sends' = sends + 1
    /\ UNCHANGED <<item, rpc, stopping, late, rvars, jvars, bvars, mvars, yvars>>

\* run: item = self.queue.get() waits for an item; the poison pill ends
\* the thread.
Get ==
    /\ rpc = "get"
    /\ queue # <<>>
    /\ item' = Head(queue)
    /\ queue' = Tail(queue)
    /\ rpc' = IF Head(queue) = PoisonPill THEN "returned" ELSE "post"
    /\ late' = IF stopping = "done" /\ Head(queue) # PoisonPill THEN late + 1 ELSE late
    /\ UNCHANGED <<sends, outcome, stopping, rvars, jvars, bvars, mvars, yvars>>

\* run: the POST of the item; whatever the answer (204, 429 and a sleep,
\* another status, a RequestException) the loop goes on.
PostReport ==
    /\ rpc = "post"
    /\ rpc' = "get"
    /\ item' = "none"
    /\ UNCHANGED <<queue, sends, outcome, stopping, late, rvars, jvars, bvars, mvars, yvars>>

\* cmd_run's finally block calls progress_reporter.stop()
StopBegin ==
    /\ stopping = "idle"
    /\ stopping' = "empty"
    /\ UNCHANGED <<queue, sends, outcome, item, rpc, late, rvars, jvars, bvars, mvars, yvars>>

\* stop: while not self.queue.empty()
StopEmpty ==
    /\ stopping = "empty"
    /\ stopping' = IF queue = <<>> THEN "put" ELSE "get_nowait"
    /\ UNCHANGED <<queue, sends, outcome, item, rpc, late, rvars, jvars, bvars, mvars, yvars>>

\* stop: self.queue.get_nowait(), which raises queue.Empty when the
\* reporter thread has taken the last item since the test
StopGetNowait ==
    /\ stopping = "get_nowait"
    /\ IF queue = <<>>
       THEN /\ stopping' = "raised"
            /\ UNCHANGED queue
       ELSE /\ stopping' = "empty"
            /\ queue' = Tail(queue)
    /\ UNCHANGED <<sends, outcome, item, rpc, late, rvars, jvars, bvars, mvars, yvars>>

\* stop: self.queue.put(self._poison_pill) waits for a free slot
StopPut ==
    /\ stopping = "put"
    /\ Len(queue) < QueueSize
    /\ queue' = Append(queue, PoisonPill)
    /\ stopping' = "done"
    /\ UNCHANGED <<sends, outcome, item, rpc, late, rvars, jvars, bvars, mvars, yvars>>

InitProgress ==
    /\ RunOff /\ JobOff /\ BackoffOff /\ VariantOff /\ YOff
    /\ queue = <<>>
    /\ sends = 0
    /\ outcome = "none"
    /\ item = "none"
    /\ rpc = "get"
    /\ stopping = "idle"
    /\ late = 0

NextProgress ==
    \/ \E w \in Workers : Send(w)
    \/ Get
    \/ PostReport
    \/ StopBegin
    \/ StopEmpty
    \/ StopGetNowait
    \/ StopPut

SpecProgress == InitProgress /\ [][NextProgress]_vars

\* A step of send: the only steps that count a call.
SendStep == sends' = sends + 1

\* C20: a call of send is never kept waiting, whatever the queue holds; on
\* a full queue it leaves the queue as it was, otherwise it appends its
\* item; and the queue never holds more items than its capacity.
C20_SendNeverBlocks ==
    /\ [](Len(queue) <= QueueSize)
    /\ [](sends < MaxSends => \A w \in Workers : ENABLED Send(w))
    /\ [][SendStep =>
            IF Len(queue) = QueueSize
            THEN queue' = queue /\ outcome' = "dropped"
            ELSE \E w \in Workers : queue' = Append(queue, Report(w))]_vars

\* A report was dropped on a full queue.
C20_Witness ==
    /\ outcome = "dropped"
    /\ Len(queue) = QueueSize

(***************************************************************************)
(* parse_bool.  A string is the sequence of its characters; None is the    *)
(* one-item sequence <<None>>, which no string of characters equals.       *)
(***************************************************************************)
None == "None"

LowerCase == <<"a", "b", "c", "d", "e", "f", "g", "h", "i", "j", "k", "l", "m", "n", "o", "p", "q", "r", "s", "t", "u", "v", "w", "x", "y", "z">>
UpperCase == <<"A", "B", "C", "D", "E", "F", "G", "H", "I", "J", "K", "L", "M", "N", "O", "P", "Q", "R", "S", "T", "U", "V", "W", "X", "Y", "Z">>

\* one character of s.lower() and of s.upper()
ToLower(ch) ==
    IF \E i \in 1..Len(UpperCase) : UpperCase[i] = ch
    THEN LowerCase[CHOOSE i \in 1..Len(UpperCase) : UpperCase[i] = ch]
    ELSE ch
ToUpper(ch) ==
    IF \E i \in 1..Len(LowerCase) : LowerCase[i] = ch
    THEN UpperCase[CHOOSE i \in 1..Len(LowerCase) : LowerCase[i] = ch]
    ELSE ch

Lower_AsIs(s) == s

\* s.lower()
Lower(s) == [i \in 1..Len(s) |-> ToLower(s[i])]

\* the characters str.strip() removes, of those the model writes
Whitespace == {" ", "\t", "\n"}

\* s.strip(): s without its leading and trailing whitespace
RECURSIVE Strip(_)
Strip(s) ==
    IF s = <<>> THEN s
    ELSE IF Head(s) \in Whitespace THEN Strip(Tail(s))
    ELSE IF s[Len(s)] \in Whitespace THEN Strip(SubSeq(s, 1, Len(s) - 1))
    ELSE s

\* ["y", "j", "yes", "yep", "true", "t", "1", "ok"]
Affirmative == {
    <<"y">>,
    <<"j">>,
    <<"y", "e", "s">>,
    <<"y", "e", "p">>,
    <<"t", "r", "u", "e">>,
    <<"t">>,
    <<"1">>,
    <<"o", "k">> }

\* ["n", "no", "nop", "nope", "f", "false", "0"]
Negative == {
    <<"n">>,
    <<"n", "o">>,
    <<"n", "o", "p">>,
    <<"n", "o", "p", "e">>,
    <<"f">>,
    <<"f", "a", "l", "s", "e">>,
    <<"0">> }

\* not inp: None and the empty string
Falsy(s) == s = <<None>> \/ s = <<>>

\* parse_bool(inp, default): the value returned, or ConfigError raised
parse_bool(s, dflt) ==
    IF Falsy(s)
    THEN [raised |-> FALSE, value |-> dflt]
    ELSE LET t == Lower(Strip(s))
         IN  IF Falsy(t) THEN [raised |-> FALSE, value |-> dflt]
             ELSE IF t \in Affirmative THEN [raised |-> FALSE, value |-> TRUE]
             ELSE IF t \in Negative THEN [raised |-> FALSE, value |-> FALSE]
             ELSE [raised |-> TRUE, value |-> FALSE]

\* Words that are in neither list, one of them with a space inside.
OtherWords == {
    <<"m", "a", "y", "b", "e">>,
    <<"2">>,
    <<"o", "n">>,
    <<"y", "e", "s", " ", "n", "o">>,
    <<"y", "e", " ", "s">> }

Words == Affirmative \cup Negative \cup OtherWords \cup { <<>> }

\* The ways a word is written: as it is, in capitals, with a capital
\* first letter.
Written(w) ==
    { w,
      [i \in 1..Len(w) |-> ToUpper(w[i])],
      [i \in 1..Len(w) |-> IF i = 1 THEN ToUpper(w[i]) ELSE w[i]] }

Paddings == { <<>>, <<" ">>, <<"\t", " ">>, <<"\n">> }

ParseBool ==
    /\ parsed = <<>>
    /\ parsed' = <<parse_bool(inp, default)>>
    /\ UNCHANGED <<inp, word, default, rvars, jvars, xvars, cvars, avars, gvars, lvars>>

InitParse ==
    /\ RunOff /\ JobOff /\ BackoffOff /\ VariantOff /\ ProgressOff /\ PoolOff /\ AcquireOff /\ ScoreOff /\ LockOff
    /\ word \in Words
    /\ \/ inp = <<None>> /\ word = <<>>
       \/ \E l \in Paddings, r \in Paddings, w \in Written(word) : inp = l \o w \o r
    /\ default \in BOOLEAN
    /\ parsed = <<>>

NextParse == ParseBool

SpecParse == InitParse /\ [][NextParse]_vars

\* C21: parse_bool returns default for an empty or whitespace-only input
\* (and for None), True for a word of the affirmative list, False for a
\* word of the negative list, however the word is capitalised and padded
\* with whitespace, and raises ConfigError for any other input.
C21_ParseBool ==
    parsed # <<>> =>
        /\ word = <<>> => parsed[1] = [raised |-> FALSE, value |-> default]
        /\ word \in Affirmative => parsed[1] = [raised |-> FALSE, value |-> TRUE]
        /\ word \in Negative => parsed[1] = [raised |-> FALSE, value |-> FALSE]
        /\ word \in OtherWords => parsed[1].raised

\* " Yes\n" with default False.
C21_Witness ==
    /\ inp = <<" ", "Y", "e", "s", "\n">>
    /\ ~default
    /\ parsed = <<[raised |-> FALSE, value |-> TRUE]>>

(***************************************************************************)
(* cmd_run: the size of the worker pool.  cores and threads are what       *)
(* validate_cores and validate_threads let through: cores >= 1 and         *)
(* 1 <= threads <= cores.                                                  *)
(***************************************************************************)
MaxCores == 7

Max(a, b) == IF a > b THEN a ELSE b

\* instances = max(1, cores // threads); buckets = [0] * instances
Instances ==
    /\ instances = 0
    /\ instances' = Max(1, cores \div threads)
    /\ buckets' = [b \in 1..Max(1, cores \div threads) |-> 0]
    /\ UNCHANGED <<cores, threads, core, worker_threads, rvars, jvars, xvars, pvars, avars, gvars, lvars>>

BucketIndex_First(i, n) == 0

\* i % instances
BucketIndex(i, n) == i % n

\* for i in range(0, cores): buckets[i % instances] += 1
Fill ==
    /\ instances > 0 /\ core < cores
    /\ buckets' = [buckets EXCEPT ![BucketIndex(core, instances) + 1] = @ + 1]
    /\ core' = core + 1
    /\ UNCHANGED <<cores, threads, instances, worker_threads, rvars, jvars, xvars, pvars, avars, gvars, lvars>>

\* workers = [Worker(conf, bucket, ...) for bucket in buckets]
CreateWorkers ==
    /\ instances > 0 /\ core = cores
    /\ worker_threads = <<>>
    /\ worker_threads' = buckets
    /\ UNCHANGED <<cores, threads, instances, buckets, core, rvars, jvars, xvars, pvars, avars, gvars, lvars>>

InitPool ==
    /\ RunOff /\ JobOff /\ BackoffOff /\ VariantOff /\ ProgressOff /\ ParseOff /\ AcquireOff /\ ScoreOff /\ LockOff
    /\ cores \in 1..MaxCores
    /\ threads \in 1..cores
    /\ instances = 0
    /\ buckets = <<>>
    /\ core = 0
    /\ worker_threads = <<>>

NextPool ==
    \/ Instances
    \/ Fill
    \/ CreateWorkers

SpecPool == InitPool /\ [][NextPool]_vars

Ceil(a, b) == (a + b - 1) \div b

RECURSIVE Sum(_)
Sum(s) == IF s = <<>> THEN 0 ELSE Head(s) + Sum(Tail(s))

\* C22 as stated: the pool has one worker per bucket and every worker is
\* given ceil(cores / pool) threads.
C22_Original_CeilEach ==
    worker_threads # <<>> =>
        /\ Len(worker_threads) = Len(buckets)
        /\ \A w \in 1..Len(worker_threads) :
              worker_threads[w] = Ceil(cores, Len(worker_threads))

\* C22 as the code has it: the pool has max(1, cores // threads) workers,
\* one per bucket; the first cores mod pool workers are given
\* ceil(cores / pool) threads and the others floor(cores / pool), so that
\* the threads of the pool add up to cores.
C22_PoolThreads ==
    worker_threads # <<>> =>
        LET pool == Len(worker_threads)
        IN  /\ pool = Len(buckets)
            /\ pool = Max(1, cores \div threads)
            /\ \A w \in 1..pool :
                  worker_threads[w] = IF w <= cores % pool
                                      THEN Ceil(cores, pool)
                                      ELSE cores \div pool
            /\ Sum(worker_threads) = cores

\* Five cores, two threads per engine: workers of three and of two threads.
C22_Witness ==
    /\ cores = 5 /\ threads = 2
    /\ worker_threads = <<3, 2>>

\* C40: the pool has max(1, cores // threads) workers, their thread counts
\* add up to cores, any two of them differ by at most one, and each is at
\* least the configured number of threads per engine.
C40_PoolBalanced ==
    worker_threads # <<>> =>
        /\ Len(worker_threads) = Max(1, cores \div threads)
        /\ Sum(worker_threads) = cores
        /\ \A v, w \in 1..Len(worker_threads) :
              worker_threads[v] - worker_threads[w] <= 1
        /\ \A w \in 1..Len(worker_threads) : worker_threads[w] >= threads

\* Seven cores, three threads per engine: two workers, of four and of three
\* threads.
C40_Witness ==
    /\ cores = 7 /\ threads = 3
    /\ instances = 2
    /\ worker_threads = <<4, 3>>

(***************************************************************************)
(* One worker with its backoff generator: the worker loop of worker 1 with *)
(* self.backoff and the local t of run_inner (sleep_t), no supervisor.               *)
(***************************************************************************)
\* (60 if response.status_code == 429 else 0), in units of 1/Unit s
Extra(r) == IF r.status = 429 THEN 60 * Unit ELSE 0

\* What a branch of run_inner does with self.backoff: every branch but the
\* 202 one calls next(self.backoff) first thing after `self.job = None`
\* (the 4xx branch before it reads the body); the 202 branch replaces the
\* generator once response.json() has returned.
BackoffCall_NoStart(r) == "next"

BackoffCall(r) ==
    IF r.status = 202
    THEN IF r.body = "job" THEN "start" ELSE "none"
    ELSE "next"

PostBackoff(w) ==
    /\ \E r \in Responses :
          /\ PostResponse(w, r)
          /\ CASE BackoffCall(r) = "next" ->
                     /\ Yield
                     /\ sleep_t' = delay' + Extra(r)
               [] BackoffCall(r) = "start" ->
                     /\ Restart
                     /\ UNCHANGED sleep_t
               [] OTHER -> UNCHANGED <<backoff, yielded, delay, sleep_t>>
    /\ UNCHANGED <<fixed, abort, svars, jvars, mvars, qvars, pvars, cvars, gvars, lvars>>

\* except DEAD_ENGINE_ERRORS: if alive: t = next(self.backoff)
DiedBackoff(w) ==
    /\ DiedIsAlive(w)
    /\ IF alive[w]
       THEN Yield /\ sleep_t' = delay'
       ELSE UNCHANGED <<backoff, yielded, delay, sleep_t>>
    /\ UNCHANGED <<fixed, abort, svars, jvars, mvars, qvars, pvars, cvars, gvars, lvars>>

\* abort_job with the outcome of its POST kept
AbortPost(w) ==
    /\ \E status \in AbortStatuses :
          /\ abort_job(w, status)
          /\ abort' = IF job[w] # NoJob THEN status ELSE abort
    /\ UNCHANGED <<sleep_t, svars, jvars, xvars, pvars, cvars, gvars, lvars>>

InitAcquire ==
    /\ RunOff /\ JobOff /\ VariantOff /\ ProgressOff /\ ParseOff /\ PoolOff /\ ScoreOff /\ LockOff
    /\ fixed \in BOOLEAN
    /\ backoff = 1
    /\ yielded = 0
    /\ delay = 0
    /\ sleep_t = 0
    /\ abort = -1

NextAcquire ==
    \/ Run(1)
    \/ Finally(1)
    \/ StartStockfish(1)
    \/ Handshake(1)
    \/ Work(1)
    \/ DiedBackoff(1)
    \/ AbortPost(1)
    \/ DiedSleep(1)
    \/ DiedKill(1)
    \/ PostBackoff(1)
    \/ Sleep(1)
    \/ EngineExit(1)

SpecAcquire == InitAcquire /\ [][NextAcquire]_vars

\* A step in which worker 1 handles the answer to its POST; resp'[1] is
\* that answer.
HandlesResponse == pc[1] = "post" /\ pc'[1] # "post"

\* C23: handling a 202 response that carries a job makes the body the
\* current job, replaces the backoff generator by a fresh one and goes to
\* the next iteration without a sleep; handling a response of any other
\* status steps the generator and never replaces it.
C23_AcceptRestartsBackoff ==
    [][HandlesResponse =>
          /\ (resp'[1].status = 202 /\ resp'[1].body = "job") =>
                /\ job'[1] = resp'[1].job
                /\ yielded' = 0 /\ backoff' = 1
                /\ pc'[1] = "run"
          /\ resp'[1].status # 202 =>
                /\ yielded' = yielded + 1
                /\ backoff' >= backoff]_vars

\* A job accepted by a worker that had slept before.
C23_Witness ==
    /\ resp[1].status = 202
    /\ job[1] # NoJob
    /\ sleep_t > 0
    /\ yielded = 0

\* C24: after a 4xx response without the update marker the job is null,
\* the worker is in a sleep of one backoff step, plus 60 s exactly for a
\* 429, and no fatal error is recorded.
C24_ClientErrorBacksOff ==
    (resp[1].status \in {400, 429} /\ resp[1].body # "marker") =>
        /\ job[1] = NoJob
        /\ fatal_error[1] = "none"
        /\ pc[1] = "sleep"
        /\ sleep_t = delay + (IF resp[1].status = 429 THEN 60 * Unit ELSE 0)

\* C38 as stated: whatever the status and the body of a response, unless
\* it is a 4xx with the update marker, the worker that handled it has no
\* fatal error and goes on with its loop (to the sleep, or to the next
\* iteration).
C38_NoResponseTerminates ==
    (/\ resp[1] # NoResp
     /\ ~(resp[1].status \in {400, 429} /\ resp[1].body = "marker")) =>
        /\ fatal_error[1] = "none"
        /\ pc[1] \in {"sleep", "run"}

\* C25: when worker 1 is through the handler of an engine-died error that
\* it caught while alive, its job is null whatever the abort POST came to
\* and its engine handle is empty; and a worker that starts an iteration
\* with an empty handle leaves start_stockfish either with exactly one new
\* engine or into the same handler again (the spawn failed), nothing else.
C25_DiedResets ==
    [][/\ (pc[1] = "abort" /\ pc'[1] # "abort") => job'[1] = NoJob
       /\ (pc[1] = "died_kill" /\ pc'[1] # "died_kill") =>
             /\ pc'[1] = "run"
             /\ job'[1] = NoJob
             /\ stockfish'[1] = "None" /\ proc'[1] = 0
       /\ (pc[1] = "start_stockfish" /\ stockfish[1] = "None"
                /\ pc'[1] # "start_stockfish") =>
             \/ /\ pc'[1] = "uci"
                /\ stockfish'[1] = "running"
                /\ proc[1] = 0 /\ proc'[1] = 1
             \/ /\ pc'[1] = "died"
                /\ stockfish'[1] = "None" /\ proc'[1] = 0]_vars

\* The abort POST failed in transport, and the worker has been through
\* the handler and has spawned its new engine.
C25_Witness ==
    /\ abort = 0
    /\ evlog[1] = DiedStepsInCode
    /\ job[1] = NoJob
    /\ pc[1] = "uci" /\ proc[1] = 1

(***************************************************************************)
(* Properties of fatal errors and of interrupts (specification Spec).      *)
(***************************************************************************)
FatalErrors == { fatal_error[w] : w \in Workers } \ {"none"}

Stopped(w) ==
    \/ spc = "fin_stop" /\ sidx > w
    \/ spc \in {"fin_wait", "return", "main_update", "exited"}

\* C34 as stated, for the workers that leave their loop without a fatal
\* error: a worker whose finished event is set holds no job, as every job
\* it was given has been posted as a result or as an abort.  (The job of
\* self.job is replaced or cleared by the handling of the response to its
\* result POST and cleared by abort_job, so a job in self.job has had
\* neither.)
C34_NoJobForgotten ==
    \A w \in Workers :
        (finished[w] /\ fatal_error[w] = "none") => job[w] = NoJob

\* C35 as stated: once stop() has returned for a worker, the worker has no
\* live engine subprocess when its finished event is set.
C35_NoEngineAfterStop ==
    \A w \in Workers :
        (Stopped(w) /\ finished[w]) => stockfish[w] # "running"

\* C36 as stated: a worker that comes to use its engine after stop() has
\* emptied the handle (in the handshake of start_stockfish, or in the
\* execution of its job) takes the engine-died path and records no fatal
\* error.
C36_StopNeverFatal ==
    [][\A w \in Workers :
          (/\ pc[w] \in {"uci", "work"}
           /\ stockfish[w] = "None" /\ ~alive[w]
           /\ pc'[w] # pc[w]) =>
              fatal_error'[w] = "none"]_vars

(***************************************************************************)
(* Properties of the reporter's shutdown (specification SpecProgress).     *)
(***************************************************************************)
\* C28 as stated: stop() ends having put one poison pill into the queue;
\* the reporter thread returns on the first pill it takes; and no item is
\* taken for posting once stop() has returned (only the item in flight at
\* that moment is still posted).
C28_StopPoisons ==
    /\ stopping # "raised"
    /\ stopping = "done" => (In(PoisonPill, queue) \/ rpc = "returned")
    /\ rpc = "returned" => item = PoisonPill
    /\ late = 0

\* C37 as stated: stop() never ends in an exception, whatever the
\* reporter thread and the workers' send() do between its steps.
C37_StopNeverRaises == stopping # "raised"

(***************************************************************************)
(* The score that go() keeps.  The loop of go() reads the engine's output  *)
(* line by line; an "info" line is split on single spaces and its tokens   *)
(* are walked with the cursor current_parameter, and after the walk the    *)
(* line's score is stored in info["score"] or dropped.  The specification  *)
(* SpecScore follows info["score"] through the info lines of one call      *)
(* after another.  The other keys of info do not enter the decision about  *)
(* the score (multipv only decides what happens to pv tokens) and are not  *)
(* kept.                                                                   *)
(***************************************************************************)
MaxInfos == 3

ScoreValues == {0 - 120, 0, 35}

\* int(token) for the numerals that the lines below are written with.
Numbers == ScoreValues \cup {1, 2, 5, 7, 100}

str(v) ==
    CASE v = 0 - 120 -> "-120"
      [] v = 0 -> "0"
      [] v = 1 -> "1"
      [] v = 2 -> "2"
      [] v = 5 -> "5"
      [] v = 7 -> "7"
      [] v = 35 -> "35"
      [] v = 100 -> "100"

Numerals == { str(v) : v \in Numbers }

\* int(token) of a numeral; of anything else int() raises ValueError.
int(token) == CHOOSE v \in Numbers : str(v) = token

\* The keywords of the walk that set the cursor and pop the key.
Keywords ==
    {"depth", "seldepth", "time", "nodes", "multipv", "currmove",
     "currmovenumber", "hashfull", "nps", "tbhits", "cpuload", "refutation",
     "currline", "string"}

IntegerParameters ==
    {"depth", "seldepth", "time", "nodes", "currmovenumber", "hashfull",
     "nps", "tbhits", "cpuload", "multipv"}

\* The locals of one info line before its first token, with the two keys
\* of info that the walk reads (m: multipv, p: pv); score_value is <<>> for
\* None and <<v>> for the integer v; raised: int() has raised ValueError.
LineStart(m, p) ==
    [current_parameter |-> "None", score_kind |-> "None",
     score_value |-> <<>>, lowerbound |-> FALSE, upperbound |-> FALSE,
     multipv |-> m, pv |-> p, raised |-> FALSE]

\* GetMultipv with the stored value passed over.
GetMultipv_One(l) == 1

\* info.get("multipv", 1)
GetMultipv(l) == IF l.multipv = <<>> THEN 1 ELSE l.multipv[1]

\* One round of "for token in arg.split(" ")": the elif chain in its order.
\* The branches that only write other keys of info leave the locals alone.
Token(l, token) ==
    IF l.current_parameter = "string" THEN l
    ELSE IF token = "score" THEN [l EXCEPT !.current_parameter = "score"]
    ELSE IF token = "pv" THEN
        [l EXCEPT !.current_parameter = "pv",
                  !.pv = IF GetMultipv(l) = 1 THEN <<>> ELSE @]
    ELSE IF token \in Keywords THEN
        [l EXCEPT !.current_parameter = token,
                  !.multipv = IF token = "multipv" THEN <<>> ELSE @]
    ELSE IF l.current_parameter \in IntegerParameters THEN
        IF token \notin Numerals THEN [l EXCEPT !.raised = TRUE]
        ELSE IF l.current_parameter = "multipv"
        THEN [l EXCEPT !.multipv = <<int(token)>>]
        ELSE l
    ELSE IF l.current_parameter = "score" THEN
        IF token \in {"cp", "mate"}
        THEN [l EXCEPT !.score_kind = token, !.score_value = <<>>]
        ELSE IF token = "lowerbound" THEN [l EXCEPT !.lowerbound = TRUE]
        ELSE IF token = "upperbound" THEN [l EXCEPT !.upperbound = TRUE]
        ELSE IF token \notin Numerals THEN [l EXCEPT !.raised = TRUE]
        ELSE [l EXCEPT !.score_value = <<int(token)>>]
    ELSE IF l.current_parameter # "pv" \/ GetMultipv(l) = 1 THEN
        \* Strings: info[current_parameter] is set, or gets " " + token
        IF l.current_parameter = "pv"
        THEN [l EXCEPT !.pv = IF @ = <<>> THEN <<<<token>>>>
                              ELSE <<Append(@[1], token)>>]
        ELSE l
    ELSE l

\* The loop over the tokens; an exception ends it.
RECURSIVE Walk(_, _)
Walk(l, tokens) ==
    IF tokens = <<>> \/ l.raised THEN l
    ELSE Walk(Token(l, Head(tokens)), Tail(tokens))

IsBound(s) == s.lowerbound \/ s.upperbound

\* Variant of SetScore that stores every complete score of a line.
SetScore_Always(stored, l) ==
    IF l.score_kind # "None" /\ l.score_value # <<>>
    THEN [kind |-> l.score_kind, value |-> l.score_value[1],
          lowerbound |-> l.lowerbound, upperbound |-> l.upperbound]
    ELSE stored

\* Variant of SetScore in which a bound is stored only if no score is.
SetScore_FirstBound(stored, l) ==
    IF /\ l.score_kind # "None"
       /\ l.score_value # <<>>
       /\ \/ ~(l.lowerbound \/ l.upperbound)
          \/ stored = NoScore
    THEN [kind |-> l.score_kind, value |-> l.score_value[1],
          lowerbound |-> l.lowerbound, upperbound |-> l.upperbound]
    ELSE stored

\* "Set score. Prefer scores that are not just a bound": info["score"]
\* after the line whose walk ended with the locals l.
SetScore(stored, l) ==
    IF /\ l.score_kind # "None"
       /\ l.score_value # <<>>
       /\ \/ ~(l.lowerbound \/ l.upperbound)
          \/ stored = NoScore
          \/ stored.lowerbound
          \/ stored.upperbound
    THEN [kind |-> l.score_kind, value |-> l.score_value[1],
          lowerbound |-> l.lowerbound, upperbound |-> l.upperbound]
    ELSE stored

\* The info lines an engine is taken to write: a score of a kind and a
\* value with its flags, in one of several shapes.
ScoreFlags == {"none", "lowerbound", "upperbound", "both"}

Shapes ==
    {"full", "flag_first", "no_score", "no_value", "no_kind", "new_kind",
     "string"}

Lines == [kind : {"cp", "mate"}, value : ScoreValues, flag : ScoreFlags,
          form : Shapes]

FlagTokens(d) ==
    CASE d.flag = "none" -> <<>>
      [] d.flag = "lowerbound" -> <<"lowerbound">>
      [] d.flag = "upperbound" -> <<"upperbound">>
      [] d.flag = "both" -> <<"lowerbound", "upperbound">>

\* arg.split(" ") of the line.
InfoLine(d) ==
    CASE d.form = "full" ->
            <<"depth", "5", "seldepth", "7", "multipv", "1", "score",
              d.kind, str(d.value)>> \o FlagTokens(d)
                \o <<"nodes", "100", "pv", "e2e4", "e7e5">>
      [] d.form = "flag_first" ->
            <<"depth", "5", "score">> \o FlagTokens(d)
                \o <<d.kind, str(d.value), "pv", "e2e4">>
      [] d.form = "no_score" ->
            <<"depth", "5", "currmove", "e2e4", "currmovenumber", "1">>
      [] d.form = "no_value" ->
            <<"depth", "5", "score", d.kind>> \o FlagTokens(d)
      [] d.form = "no_kind" ->
            <<"depth", "5", "score", str(d.value)>> \o FlagTokens(d)
      [] d.form = "new_kind" ->
            <<"score", "cp", str(d.value), "mate">> \o FlagTokens(d)
      [] d.form = "string" ->
            <<"string", "score", d.kind, str(d.value)>> \o FlagTokens(d)

\* command == "info": the line is walked and its score set.
\* SpecScore follows the score alone: the pv of its lines is not kept.
RecvInfo ==
    /\ infos < MaxInfos
    /\ \E d \in Lines :
        /\ told' = d
        /\ score' = SetScore(score, Walk(LineStart(multipv, pv), InfoLine(d)))
    /\ before' = score
    /\ infos' = infos + 1
    /\ UNCHANGED <<multipv, pv, pv_before, go_raised>>
    /\ UNCHANGED <<rvars, jvars, xvars, pvars, cvars, avars, lvars>>

\* command == "bestmove": go() returns info; the next call starts with
\* info = {}.
RecvBestmove ==
    /\ infos > 0 /\ ~go_raised
    /\ score' = NoScore
    /\ before' = NoScore
    /\ told' = NoLine
    /\ infos' = 0
    /\ multipv' = <<>>
    /\ pv' = <<>>
    /\ pv_before' = <<>>
    /\ UNCHANGED go_raised
    /\ UNCHANGED <<rvars, jvars, xvars, pvars, cvars, avars, lvars>>

InitScore ==
    /\ RunOff /\ JobOff /\ BackoffOff /\ VariantOff /\ ProgressOff
    /\ ParseOff /\ PoolOff /\ AcquireOff
    /\ ScoreOff /\ LockOff

NextScore == RecvInfo \/ RecvBestmove

SpecScore == InitScore /\ [][NextScore]_vars

(***************************************************************************)
(* The whole of info that the walk reads and writes: score, multipv, pv.   *)
(* The specification SpecInfo takes the lines of an engine that reports    *)
(* several principal variations, and lines with a token the walk does not  *)
(* know.                                                                   *)
(***************************************************************************)
PvLines == [mpv : {"absent", "1", "2"}, pvt : {"none", "one", "two"},
            form : {"engine", "unknown", "wdl", "string"}]

MultipvTokens(d) == IF d.mpv = "absent" THEN <<>> ELSE <<"multipv", d.mpv>>

\* The moves after the pv token of the line.
PvMoves(d) == IF d.pvt = "one" THEN <<"d2d4">> ELSE <<"e2e4", "e7e5">>

PvTokens(d) == IF d.pvt = "none" THEN <<>> ELSE <<"pv">> \o PvMoves(d)

\* arg.split(" ") of the line: as the engine writes it; with a token in
\* front that is no keyword; with win/draw/loss numbers after the score;
\* and as the text of an "info string".
PvLine(d) ==
    CASE d.form = "engine" ->
            <<"depth", "5">> \o MultipvTokens(d)
                \o <<"score", "cp", "35", "nodes", "100">> \o PvTokens(d)
      [] d.form = "unknown" ->
            <<"foo", "depth", "5">> \o MultipvTokens(d)
                \o <<"score", "cp", "35", "nodes", "100">> \o PvTokens(d)
      [] d.form = "wdl" ->
            <<"depth", "5">> \o MultipvTokens(d)
                \o <<"score", "cp", "35", "wdl", "1", "5", "0", "nodes", "100">>
                \o PvTokens(d)
      [] d.form = "string" ->
            <<"string", "depth", "5">> \o MultipvTokens(d) \o PvTokens(d)

\* command == "info": the line is walked and its score set; a ValueError
\* of int() leaves go() (and info with it).
RecvLine ==
    /\ infos < MaxInfos /\ ~go_raised
    /\ \E d \in PvLines :
          LET l == Walk(LineStart(multipv, pv), PvLine(d))
          IN  /\ told' = d
              /\ go_raised' = l.raised
              /\ IF l.raised
                 THEN UNCHANGED <<score, multipv, pv>>
                 ELSE /\ score' = SetScore(score, l)
                      /\ multipv' = l.multipv
                      /\ pv' = l.pv
    /\ before' = score
    /\ pv_before' = pv
    /\ infos' = infos + 1
    /\ UNCHANGED <<rvars, jvars, xvars, pvars, cvars, avars, lvars>>

\* any other command: logging.warning("Unexpected engine response to go")
RecvUnexpected ==
    /\ infos < MaxInfos /\ ~go_raised
    /\ told' = NoLine
    /\ before' = score
    /\ pv_before' = pv
    /\ infos' = infos + 1
    /\ UNCHANGED <<score, multipv, pv, go_raised>>
    /\ UNCHANGED <<rvars, jvars, xvars, pvars, cvars, avars, lvars>>

NextInfo == RecvLine \/ RecvUnexpected \/ RecvBestmove

SpecInfo == InitScore /\ [][NextInfo]_vars

\* The last line was an info line with a pv outside of a string.
CarriesPv == told \in PvLines /\ told.form \in {"engine", "unknown"} /\ told.pvt # "none"

\* The multipv in force at the end of the last line: the line's own, or
\* the stored one, or 1 when none was ever reported.
CurrentMultipv ==
    IF told \in PvLines /\ told.form # "string" /\ told.mpv # "absent"
    THEN int(told.mpv)
    ELSE IF multipv = <<>> THEN 1 ELSE multipv[1]

\* C31: the moves after pv are recorded only when the multipv in force
\* (1 when never reported) is 1, and then they replace the stored pv; a
\* line whose multipv is not 1 leaves the stored pv as it was, and so does
\* a line without pv; so the stored pv is that of the latest line with a
\* pv and multipv 1.
C31_PvOfFirstVariation ==
    ~go_raised =>
        /\ CurrentMultipv # 1 => pv = pv_before
        /\ ~CarriesPv => pv = pv_before
        /\ (CarriesPv /\ CurrentMultipv = 1) => pv = <<PvMoves(told)>>

\* After a line of the first variation with a pv of two moves, the line of
\* the second variation with another pv has left the stored pv alone.
C31_Witness ==
    /\ told \in PvLines /\ told.form = "engine"
    /\ told.mpv = "2" /\ told.pvt = "one"
    /\ multipv = <<2>>
    /\ pv_before = <<<<"e2e4", "e7e5">>>>
    /\ pv = pv_before

\* C33 as stated: no line of the engine, whatever its tokens, makes go()
\* raise.
C33_AnomalyOnlyLogged == ~go_raised

\* The last line carried a score with a kind and a value.
HasScore == told.form \in {"full", "flag_first"}

\* The last line's score was a bound.
Flagged == told.flag # "none"

\* The score the last line carried.
Told ==
    [kind |-> told.kind, value |-> told.value,
     lowerbound |-> told.flag \in {"lowerbound", "both"},
     upperbound |-> told.flag \in {"upperbound", "both"}]

\* C29 as stated: the stored score changes with an info line only if the
\* line's score is not a bound or no score was stored before the line.
C29_Original_NoBoundReplaces ==
    score # before => (HasScore /\ score = Told /\ (~Flagged \/ before = NoScore))

\* C29, amended: the stored score changes with an info line only to the
\* line's score, and only if that score is not a bound, or no score was
\* stored before the line, or the stored score was itself a bound.
C29_ReplacedOnlyIf ==
    score # before =>
        /\ HasScore
        /\ score = Told
        /\ ~Flagged \/ before = NoScore \/ IsBound(before)

\* A stored bound has been replaced by another bound.
C29_Witness ==
    /\ infos > 0
    /\ IsBound(before)
    /\ Flagged
    /\ score = Told
    /\ score # before

\* C30: a line's score that is flagged lowerbound or upperbound becomes the
\* stored score exactly if no score was stored or the stored score was a
\* bound, and otherwise the stored exact score stays; an unflagged score of
\* a line always becomes the stored score.
C30_BoundNeverOverwritesExact ==
    /\ (HasScore /\ Flagged) =>
            IF before = NoScore \/ IsBound(before)
            THEN score = Told
            ELSE score = before
    /\ (HasScore /\ ~Flagged) => score = Told

\* The third line of a call carried a bound while an exact score was stored,
\* and the exact score stayed.
C30_Witness ==
    /\ infos = MaxInfos
    /\ HasScore /\ Flagged
    /\ before # NoScore /\ ~IsBound(before)
    /\ score = before

(***************************************************************************)
(* Shutdown with the locks.  The finally block of cmd_run runs against the *)
(* worker threads: stop() takes the worker's status_lock and, inside it,   *)
(* kill_stockfish() takes its stockfish_lock; progress_reporter.stop()     *)
(* is one step that returns or raises (its steps are in SpecProgress);     *)
(* is_alive() takes status_lock; start_stockfish() takes stockfish_lock    *)
(* and, inside it, open_process takes the process-wide _popen_lock.  A     *)
(* step that takes a lock waits until the lock is free.  The specification *)
(* SpecShutdown begins where the finally block begins, with the workers at *)
(* the top of their loop, and lets every thread run: an HTTP call returns, *)
(* a read from an engine returns a line or the end of the stream, and a    *)
(* thread that waits for a lock which is released again and again gets it  *)
(* (strong fairness).                                                      *)
(***************************************************************************)
WorkerFrame == <<svars, jvars, xvars, pvars, cvars, avars, gvars>>

\* `while self.is_alive()`: the read of alive under status_lock
LockedRun(w) == status_lock[w] = "free" /\ Run(w)

\* start_stockfish: with self.stockfish_lock
EngineLock(w) ==
    /\ Running /\ pc[w] = "start_stockfish"
    /\ stockfish_lock[w] = "free"
    /\ stockfish_lock' = [stockfish_lock EXCEPT ![w] = "worker"]
    /\ pc' = [pc EXCEPT ![w] = "poll"]
    /\ UNCHANGED <<alive, job, stockfish, proc, fatal_error, finished, sleep,
                   path, resp, died_alive, evlog, held, status_lock,
                   popen_lock, WorkerFrame>>

\* start_stockfish: `if self.stockfish and self.stockfish.poll() is None:
\* return`, which releases the lock; else open_process: with _popen_lock
EnginePoll(w) ==
    /\ Running /\ pc[w] = "poll"
    /\ IF stockfish[w] # "None" /\ stockfish[w] = "running"
       THEN /\ pc' = [pc EXCEPT ![w] = "work"]
            /\ stockfish_lock' = [stockfish_lock EXCEPT ![w] = "free"]
            /\ UNCHANGED popen_lock
       ELSE /\ popen_lock = 0
            /\ popen_lock' = w
            /\ pc' = [pc EXCEPT ![w] = "popen"]
            /\ UNCHANGED stockfish_lock
    /\ UNCHANGED <<alive, job, stockfish, proc, fatal_error, finished, sleep,
                   path, resp, died_alive, evlog, held, status_lock,
                   WorkerFrame>>

\* open_process: subprocess.Popen returns the new process or raises
\* OSError; both locks are released on the way out
EnginePopen(w) ==
    /\ Running /\ pc[w] = "popen"
    /\ \/ Spawn(w)
       \/ /\ pc' = [pc EXCEPT ![w] = "died"]
          /\ UNCHANGED <<stockfish, proc, evlog>>
    /\ popen_lock' = 0
    /\ stockfish_lock' = [stockfish_lock EXCEPT ![w] = "free"]
    /\ UNCHANGED <<alive, job, fatal_error, finished, sleep, path, resp,
                   died_alive, held, status_lock, WorkerFrame>>

\* except DEAD_ENGINE_ERRORS: alive = self.is_alive(), under status_lock
LockedDiedCatch(w) == status_lock[w] = "free" /\ DiedCatch(w)

\* the handler's self.kill_stockfish(): with self.stockfish_lock
LockedDiedKill(w) == stockfish_lock[w] = "free" /\ DiedKill(w)

\* The worker thread.
ShutdownWorker(w) ==
    \/ LockedRun(w)
    \/ Finally(w)
    \/ EngineLock(w)
    \/ EnginePoll(w)
    \/ EnginePopen(w)
    \/ Handshake(w)
    \/ Work(w)
    \/ LockedDiedCatch(w)
    \/ AbortJob(w)
    \/ DiedSleep(w)
    \/ LockedDiedKill(w)
    \/ Post(w)
    \/ Sleep(w)

\* stop: with self.status_lock: self.alive = False
StopLock ==
    /\ Running /\ spc = "fin_stop"
    /\ status_lock[sidx] = "free"
    /\ status_lock' = [status_lock EXCEPT ![sidx] = "main"]
    /\ alive' = [alive EXCEPT ![sidx] = FALSE]
    /\ spc' = "fin_kill"
    /\ UNCHANGED <<pc, job, stockfish, proc, fatal_error, finished, sleep,
                   path, resp, died_alive, evlog, held, sidx, ignore, raised,
                   exit, auto_update, stockfish_lock, popen_lock,
                   jvars, xvars, pvars, cvars, avars, gvars>>

\* stop: self.kill_stockfish(): with self.stockfish_lock, kill and reset
StopKill ==
    /\ Running /\ spc = "fin_kill"
    /\ stockfish_lock[sidx] = "free"
    /\ KillStockfish(sidx)
    /\ spc' = "fin_set"
    /\ UNCHANGED <<pc, alive, job, fatal_error, finished, sleep,
                   path, resp, died_alive, evlog, held, sidx, ignore, raised,
                   exit, auto_update, lvars,
                   jvars, xvars, pvars, cvars, avars, gvars>>

\* stop: self.sleep.set(), and status_lock is released; the next worker,
\* or after the last one progress_reporter.stop()
StopSet ==
    /\ Running /\ spc = "fin_set"
    /\ sleep' = [sleep EXCEPT ![sidx] = TRUE]
    /\ status_lock' = [status_lock EXCEPT ![sidx] = "free"]
    /\ sidx' = IF sidx = LastWorker THEN 1 ELSE sidx + 1
    /\ spc' = IF sidx = LastWorker THEN "fin_report" ELSE "fin_stop"
    /\ UNCHANGED <<pc, alive, job, stockfish, proc, fatal_error, finished,
                   path, resp, died_alive, evlog, held, ignore, raised,
                   exit, auto_update, stockfish_lock, popen_lock,
                   jvars, xvars, pvars, cvars, avars, gvars>>

\* finally: progress_reporter.stop().  Its steps against the reporter
\* thread and the workers' send() are those of SpecProgress, where it ends
\* with the pill in the queue ("done") or in queue.Empty ("raised"); here
\* it is one step with either end.  When it has returned the final wait
\* begins; queue.Empty leaves the finally block and cmd_run.
ReporterStop ==
    /\ Running /\ spc = "fin_report"
    /\ \E end \in {"done", "raised"} :
          /\ stopping' = end
          /\ spc' = IF end = "done" THEN "fin_wait" ELSE "return"
          /\ raised' = IF end = "done" THEN raised ELSE "Exception"
    /\ UNCHANGED <<wvars, sidx, ignore, exit, auto_update, jvars, bvars, mvars,
                   queue, sends, outcome, item, rpc, late, yvars>>

\* The main thread.
ShutdownSupervisor ==
    \/ StopLock
    \/ StopKill
    \/ StopSet
    \/ ReporterStop
    \/ SupFinWait
    \/ SupReturn

InitShutdown ==
    /\ pc = [w \in Workers |-> "run"]
    /\ alive = [w \in Workers |-> TRUE]
    /\ job = [w \in Workers |-> NoJob]
    /\ stockfish = [w \in Workers |-> "None"]
    /\ proc = [w \in Workers |-> 0]
    /\ fatal_error = [w \in Workers |-> "none"]
    /\ finished = [w \in Workers |-> FALSE]
    /\ sleep = [w \in Workers |-> FALSE]
    /\ path = [w \in Workers |-> NoPath]
    /\ resp = [w \in Workers |-> NoResp]
    /\ died_alive = [w \in Workers |-> FALSE]
    /\ evlog = [w \in Workers |-> <<>>]
    /\ held = [w \in Workers |-> FALSE]
    /\ spc = "fin_stop"
    /\ sidx = 1
    /\ ignore = TRUE
    /\ raised = "none"
    /\ exit = -1
    /\ auto_update = FALSE
    /\ JobOff /\ BackoffOff /\ VariantOff /\ ProgressOff /\ YOff

NextShutdown ==
    \/ \E w \in Workers : ShutdownWorker(w)
    \/ \E w \in Workers : EngineExit(w)
    \/ ShutdownSupervisor

SpecShutdown ==
    /\ InitShutdown
    /\ [][NextShutdown]_vars
    /\ \A w \in Workers : SF_vars(ShutdownWorker(w))
    /\ SF_vars(ShutdownSupervisor)

\* The final wait of cmd_run has returned.
WaitReturned ==
    /\ spc \in {"return", "exited"}
    /\ raised = "none"
    /\ \A w \in Workers : finished[w]

\* No thread ever waits for a lock held by a thread that waits for a lock
\* of its own, and the shutdown comes to its end unless
\* progress_reporter.stop() raises.
ShutdownEndsIfReporterStops == <>(WaitReturned \/ stopping = "raised")

\* C39 as stated: once the finally block runs, every worker comes to set
\* its finished event and the supervisor's final wait returns.
C39_ShutdownTerminates == <>WaitReturned

====
